---- MODULE Spec2Model ----
(***************************************************************************)
(* Order ledger of src/functions/index.js: three sheets of 11-cell rows    *)
(* ('Waiting for Approval', 'Final Orders', 'Cancelled Orders') and the    *)
(* serial counter cell 'Serial Numbers!B2', driven by HTTP handlers that   *)
(* suspend at every store call.  One action per store call of a handler    *)
(* (with the synchronous code that follows it up to the next await).       *)
(*                                                                         *)
(* Cells are strings, as values.get returns them; numbers written by the   *)
(* handlers are stored as their decimal text and parsed back on read.      *)
(***************************************************************************)
EXTENDS Integers, Sequences, FiniteSets, TLC

(***************************************************************************)
(* Bounds of the model                                                     *)
(***************************************************************************)
MaxTime == 1
MaxLines == 3
MaxItems == 2
MaxFaults == 1
MaxNum == 12

\* two requests can be in flight at once
Procs == {1, 2}

(***************************************************************************)
(* Text of numbers                                                         *)
(***************************************************************************)
Digits == <<"0", "1", "2", "3", "4", "5", "6", "7", "8", "9">>

RECURSIVE ToStr(_)
ToStr(n) == IF n < 10 THEN Digits[n + 1]
            ELSE ToStr(n \div 10) \o Digits[(n % 10) + 1]

NumRange == 0..(MaxNum + 4)

\* the decimal text of each number of the model
NumStr == [n \in NumRange |-> ToStr(n)]

NumText == {NumStr[n] : n \in NumRange}

NumOfText == [s \in NumText |-> CHOOSE n \in NumRange : NumStr[n] = s]

\* the text of the numbers below zero
NegText == {"-" \o NumStr[n] : n \in NumRange \ {0}}

NumOfNegText == [s \in NegText |->
                    0 - (CHOOSE n \in NumRange : "-" \o NumStr[n] = s)]

\* not a number: outside the numbers of the model
NaN == 0 - (MaxNum + 5)

\* parseInt(s, 10) / parseFloat(s) on the cell texts of the model
parseNum(s) == IF s \in NumText THEN NumOfText[s]
               ELSE IF s \in NegText THEN NumOfNegText[s] ELSE NaN

\* `parseFloat(x) || 0`, `parseInt(x) || 0`
orZero(n) == IF n = NaN THEN 0 ELSE n

Max(a, b) == IF a >= b THEN a ELSE b

(***************************************************************************)
(* Rows and sheets                                                         *)
(***************************************************************************)
colA == 1
colB == 2
colC == 3
colD == 4
colE == 5
colF == 6
colG == 7
colH == 8
colI == 9
colJ == 10
colK == 11
NumCols == 11

Waiting == "Waiting for Approval"
Final == "Final Orders"
Cancelled == "Cancelled Orders"
SheetNames == {Waiting, Final, Cancelled}

BlankRow == [c \in 1..NumCols |-> ""]

IsBlankRow(r) == \A c \in 1..Len(r) : r[c] = ""

HeaderRow == <<"Date", "Branch", "User", "Code", "Name", "Price",
               "Subtotal", "Category", "Qty", "", "Serial">>

RECURSIVE TrimTrailing(_)
\* the grid has no trailing blank rows: a sheet is kept without them
TrimTrailing(rows) ==
    IF rows = <<>> THEN <<>>
    ELSE IF IsBlankRow(rows[Len(rows)])
         THEN TrimTrailing(SubSeq(rows, 1, Len(rows) - 1))
         ELSE rows

RECURSIVE TrimCells(_)
\* values.get leaves out the trailing empty cells of each row
TrimCells(r) ==
    IF r = <<>> THEN <<>>
    ELSE IF r[Len(r)] = "" THEN TrimCells(SubSeq(r, 1, Len(r) - 1))
         ELSE r

\* sheets.spreadsheets.values.get({range: sheetName}).data.values || []
valuesGet(sheet) == [i \in 1..Len(sheet) |-> TrimCells(sheet[i])]

\* `row[col] || ''` and get(row, col): a missing cell reads as ''
get(row, c) == IF c <= Len(row) THEN row[c] ELSE ""

\* the 11-cell copy built by rowsToClear.map(...)
padRow(row) == [c \in 1..NumCols |-> get(row, c)]

\* an update that makes room for its rows, pushing down the rows it finds
valuesUpdateInserting(sheet, startRow, values) ==
    LET head == [i \in 1..(startRow - 1) |->
                    IF i <= Len(sheet) THEN sheet[i] ELSE BlankRow]
        tail == IF startRow <= Len(sheet)
                THEN SubSeq(sheet, startRow, Len(sheet)) ELSE <<>>
    IN TrimTrailing(head \o values \o tail)

\* sheets.spreadsheets.values.update at A<startRow>:K<endRow>
valuesUpdate(sheet, startRow, values) ==
    LET n == Max(Len(sheet), startRow + Len(values) - 1)
    IN TrimTrailing([i \in 1..n |->
           IF i >= startRow /\ i < startRow + Len(values)
           THEN values[i - startRow + 1]
           ELSE IF i <= Len(sheet) THEN sheet[i] ELSE BlankRow])

\* one entry of a batchUpdate: row (1-based), first column, cell values
writeCells(sheet, u) ==
    LET n == Max(Len(sheet), u.row)
        old == IF u.row <= Len(sheet) THEN sheet[u.row] ELSE BlankRow
        new == [c \in 1..NumCols |->
                   IF c >= u.col /\ c < u.col + Len(u.values)
                   THEN u.values[c - u.col + 1] ELSE old[c]]
    IN [i \in 1..n |-> IF i = u.row THEN new
                       ELSE IF i <= Len(sheet) THEN sheet[i] ELSE BlankRow]

\* a batch of which only the first range is applied
applyBatchFirstOnly(sheet, data) ==
    IF data = <<>> THEN TrimTrailing(sheet)
    ELSE TrimTrailing(writeCells(sheet, Head(data)))

RECURSIVE applyBatch(_, _)
\* sheets.spreadsheets.values.batchUpdate: the ranges in request order
applyBatch(sheet, data) ==
    IF data = <<>> THEN TrimTrailing(sheet)
    ELSE applyBatch(writeCells(sheet, Head(data)), Tail(data))

(***************************************************************************)
(* Dates: `now` counts half-months.  The server's calendar (getFullYear /  *)
(* getMonth) lags the Africa/Cairo wall clock, so at odd instants Cairo is *)
(* already in the next month.                                              *)
(***************************************************************************)
LocalMonth(t) == t \div 2
CairoMonth(t) == (t + 1) \div 2

Months == 0..(MaxTime + 1)

\* text timestamp whose month is m: of its first half, of its second half
Stamp(m) == "M" \o NumStr[m]
LateStamp(m) == Stamp(m) \o "+"

Stamps == {Stamp(m) : m \in Months} \cup {LateStamp(m) : m \in Months}

MonthOfStamp == [s \in Stamps |->
                    CHOOSE m \in Months : s \in {Stamp(m), LateStamp(m)}]

\* the instant, in half-months, that a text timestamp is parsed to
InstantOfStamp == [s \in Stamps |->
                      2 * MonthOfStamp[s]
                      + (IF s = Stamp(MonthOfStamp[s]) THEN 0 ELSE 1)]

\* the text timestamp of wall-clock instant w
StampAt(w) == IF w % 2 = 0 THEN Stamp(w \div 2) ELSE LateStamp(w \div 2)

NullDate == -1
InvalidDate == -2

\* the date expression shared by every scan:
\*   !cell ? null : !isNaN(cell) && Number(cell) > 30000
\*                  ? serialToDate(Number(cell)) : new Date(cell)
\* (no cell of the model is a day-serial number above 30000)
decodeDate(cell) ==
    IF cell = "" THEN NullDate
    ELSE IF cell \in Stamps THEN InstantOfStamp[cell]
         ELSE InvalidDate

isSameMonth(date, t) == date # NullDate /\ date \div 2 = LocalMonth(t)

\* date.toLocaleString('sv-SE', {timeZone: 'Africa/Cairo'}): the Cairo
\* wall clock is half a month ahead of the server's
toCairoString(date) == StampAt(date + 1)

\* now.toLocaleString('sv-SE', {timeZone: 'Africa/Cairo'})
dateString(t) == toCairoString(t)

(***************************************************************************)
(* Master credential store: one tab per client, rows                       *)
(* <<username, password, branch, restricted, level>>, F2 = budgetSheetId.  *)
(* It is read-only for the program.                                        *)
(***************************************************************************)
MasterTabs == <<
    [title |-> "Config",
     rows |-> << <<"sara", "pw", "Maadi", "N", "L1">> >>,
     f2 |-> "storeX"],
    [title |-> "ClientA",
     rows |-> << <<"amr", "pw", "Maadi", "N", "L1">>,
                 <<"sara", "pw", "Maadi", "N", "l2">>,
                 <<"omar", "pw", "", "N", "">> >>,
     f2 |-> "storeA"],
    [title |-> "ClientB",
     rows |-> << <<"amr", "pw2", "Zayed", "N", "L2">> >>,
     f2 |-> "storeB"],
    [title |-> "Readme",
     rows |-> << <<"nobody", "pw", "Maadi", "N", "L2">> >>,
     f2 |-> "storeR"],
    [title |-> "ClientC",
     rows |-> << <<"zed", "pw", "Zayed", "N", "L2">>,
                 <<"amr", "pw", "Giza", "Y", "L2">> >>,
     f2 |-> ""],
    [title |-> "ClientD",
     rows |-> << <<"zed", "pw", "Maadi", "N", "L2">> >>,
     f2 |-> "storeD"] >>

\* String.prototype.toUpperCase on the texts of the model
LowerCased == [s \in {"l1", "l2", "y", "n"} |->
                  CASE s = "l1" -> "L1" [] s = "l2" -> "L2"
                    [] s = "y" -> "Y" [] s = "n" -> "N"]
               @@ [s \in {"aa" \o NumStr[n] : n \in NumRange} |->
                      "AA" \o NumStr[CHOOSE n \in NumRange :
                                         s = "aa" \o NumStr[n]]]
               @@ [s \in {"AAx", "AA2x"} |->
                      IF s = "AAx" THEN "AAX" ELSE "AA2X"]

toUpperCase(s) == IF s \in DOMAIN LowerCased THEN LowerCased[s] ELSE s

\* String.prototype.toLowerCase on the status labels
Capitalised == [s \in {"Waiting", "Approved", "Cancelled"} |->
                   IF s = "Waiting" THEN "waiting"
                   ELSE IF s = "Approved" THEN "approved" ELSE "cancelled"]

toLowerCase(s) == IF s \in DOMAIN Capitalised THEN Capitalised[s] ELSE s

\* a scan that leaves out the 'Readme' tab only
excludeReadme == {"Readme"}

exclude == {"Config", "Readme"}

clientTabs == SelectSeq(MasterTabs, LAMBDA t : t.title \notin exclude)

NoUser == [kind |-> "null"]

Thrown == [kind |-> "throw"]

\* a match that is returned whatever F2 holds
userRecordAnyF2(tab, row) ==
    [kind |-> "ok",
     tab |-> tab.title,
     branch |-> row[3],
     restricted |-> (toUpperCase(row[4]) = "Y"),
     level |-> (IF toUpperCase(row[5]) = "" THEN "L1"
                ELSE toUpperCase(row[5])),
     budgetSheetId |-> tab.f2]

\* the body of `if (u === username)`: the record returned, or the throw
\* on a blank F2
userRecord(tab, row) ==
    IF tab.f2 = "" THEN Thrown
    ELSE [kind |-> "ok",
          tab |-> tab.title,
          branch |-> row[3],
          restricted |-> (toUpperCase(row[4]) = "Y"),
          level |-> (IF toUpperCase(row[5]) = "" THEN "L1"
                     ELSE toUpperCase(row[5])),
          budgetSheetId |-> tab.f2]

RECURSIVE scanUsers(_, _, _)
\* the two nested for-loops: tabs in title order, rows top to bottom
scanUsers(t, i, username) ==
    IF t > Len(clientTabs) THEN NoUser
    ELSE IF i > Len(clientTabs[t].rows) THEN scanUsers(t + 1, 1, username)
    ELSE LET row == clientTabs[t].rows[i]
         IN IF row[1] # "" /\ row[1] = username
            THEN userRecord(clientTabs[t], row)
            ELSE scanUsers(t, i + 1, username)

RECURSIVE matchByName(_, _, _, _)
\* a comparison of the usernames alone
matchByName(rows, i, username, password) ==
    IF i > Len(rows) THEN 0
    ELSE IF rows[i][1] = username THEN i
    ELSE matchByName(rows, i + 1, username, password)

RECURSIVE matchRow(_, _, _, _)
\* `for (const row of rows)` of findClientTabAndSheetIdByUser: the first
\* row with u === username && p === password, 0 if there is none
matchRow(rows, i, username, password) ==
    IF i > Len(rows) THEN 0
    ELSE IF rows[i][1] = "" /\ rows[i][2] = ""
    THEN matchRow(rows, i + 1, username, password)
    ELSE IF rows[i][1] = username /\ rows[i][2] = password THEN i
    ELSE matchRow(rows, i + 1, username, password)

\* the usernames requests come with
Usernames == {"amr", "sara", "omar", "zed", "nobody", ""}

\* the scan's result for each of them
ScanResult == [u \in Usernames |-> scanUsers(1, 1, u)]

getUserInfoByUsername(username) == ScanResult[username]

\* same scan; an unknown user is a throw, not a null
resolveBudgetSheetIdFromF2ByUsername(username) ==
    LET r == ScanResult[username]
    IN IF r.kind = "null" THEN Thrown ELSE r

(***************************************************************************)
(* Serial generator (getNextOrderSerial)                                   *)
(***************************************************************************)
prefix == "AA"

\* the texts of the model that start with the prefix, and what
\* parseInt(upper.slice(prefix.length).trim(), 10) finds in each: the
\* leading digits, NaN when there are none
SerialNum == [s \in {prefix \o NumStr[n] : n \in NumRange} |->
                 CHOOSE n \in NumRange : s = prefix \o NumStr[n]]
             @@ [s \in {"AAX", "AA2X"} |-> IF s = "AAX" THEN NaN ELSE 2]

\* a counter text read without asking for the prefix
currentNumAnyPrefix(currentSerial) ==
    LET upper == toUpperCase(currentSerial)
    IN IF upper \in DOMAIN SerialNum THEN orZero(SerialNum[upper])
       ELSE orZero(parseNum(upper))

\* if (upper && upper.startsWith(prefix)) { parsed = parseInt(...);
\*   if (!isNaN(parsed) && parsed >= 0) currentNum = parsed }
currentNum(currentSerial) ==
    LET upper == toUpperCase(currentSerial)
    IN IF upper \in DOMAIN SerialNum /\ SerialNum[upper] # NaN
       THEN SerialNum[upper] ELSE 0

\* a serial that skips a number
newSerialSkipping(currentSerial) ==
    prefix \o NumStr[currentNum(currentSerial) + 2]

\* newNum = currentNum + 1; newSerial = `${prefix}${newNum}`
newSerial(currentSerial) == prefix \o NumStr[currentNum(currentSerial) + 1]

(***************************************************************************)
(* appendRowsAtoK: the column-A scan                                       *)
(***************************************************************************)
RECURSIVE lastNonEmptyA(_, _)
\* for (i = colArows.length - 1; i >= 0; i--) ... lastRow = i + 1
lastNonEmptyA(sheet, i) ==
    IF i = 0 THEN 0
    ELSE IF sheet[i][colA] # "" THEN i
         ELSE lastNonEmptyA(sheet, i - 1)

\* a scan that takes the index of the last row for its number
lastRowAsIndex(sheet) == Max(0, lastNonEmptyA(sheet, Len(sheet)) - 1)

\* a scan that counts one row too many
lastRowSkipping(sheet) == lastNonEmptyA(sheet, Len(sheet)) + 1

lastRow(sheet) == lastNonEmptyA(sheet, Len(sheet))

(***************************************************************************)
(* Request inputs                                                          *)
(***************************************************************************)
\* `undefined` for an optional numeric field of a request item
Absent == -1

UnitPrice == 3

\* items of a submission, before the product names are filled in
Juice == [productCode |-> "P1", quantity |-> 2, subtotal |-> Absent]
Water == [productCode |-> "P2", quantity |-> 0, subtotal |-> 5]
NoJuice == [productCode |-> "P1", quantity |-> 0, subtotal |-> Absent]
NegJuice == [productCode |-> "P1", quantity |-> -1, subtotal |-> Absent]

\* items of an edit (updateWaitingOrder)
MoreJuice == [productCode |-> "P1", quantity |-> 4]
LessWater == [productCode |-> "P2", quantity |-> -1]

\* items of a return (updatePreviousOrders)
ReturnJuice == [rowIndex |-> Absent, productCode |-> "P1", quantity |-> 1]
ReturnRow == [rowIndex |-> 1, productCode |-> "P9", quantity |-> 0]

ReturnFar == [rowIndex |-> 9, productCode |-> "P1", quantity |-> 3]

\* the lists of 1..MaxItems items that start with item a and go on with b
Lists(a, b) == {[k \in 1..n |-> IF k = 1 THEN a ELSE b] : n \in 1..MaxItems}

ViewOps == {"approvalsSummary", "approvalDetails", "pendingOrders",
            "ordersSummaryForL2", "orderDetailsForL2",
            "exportOrdersExcel", "exportOrderExcel"}

\* the handlers that take `now` before they read the order sheets, and read
\* the three of them in turn
ThreeSheetOps == {"ordersSummaryForL2", "exportOrdersExcel",
                  "exportOrderExcel"}

\* contents of the counter cell before the first request
CounterCells == {"", "7", "aa1", "AA2", "AAx", "AA2x"}

\* the name of line k: every submitted line gets a product name of its own,
\* which the handlers copy without looking at it
LineName(k) == "N" \o NumStr[k]

(***************************************************************************)
(* State                                                                   *)
(***************************************************************************)
VARIABLES
    sheets,       \* the three order sheets: sheet name -> rows of 11 cells
    counterCell,  \* 'Serial Numbers!B2'
    now,          \* the clock
    pc,           \* where each request stands
    req,          \* its parsed body
    loc,          \* the handler's local variables
    resp,         \* the response sent
    calls,        \* order-store calls made by the request: reads, writes
    pre,          \* the store as it was when the request arrived
    last,         \* the request completed most recently
    nextLine,     \* number of the next submitted line
    faults        \* store calls that have failed so far

vars == <<sheets, counterCell, now, pc, req, loc, resp, calls, pre, last,
          nextLine, faults>>

\* a parsed request body; the fields a handler does not take stay empty
Request(op, username, branchName, orderSerial, status, items) ==
    [op |-> op, username |-> username, branchName |-> branchName,
     orderSerial |-> orderSerial, status |-> status, items |-> items]

NoReq == Request("none", "", "", "", "", <<>>)

\* a request that is turned down before any store call is kept as it came
brief(r) == r

NoLast == [op |-> "none", orderSerial |-> ""]
NoResp == [status |-> 0, success |-> FALSE, orderSerial |-> ""]
NoCalls == [reads |-> 0, writes |-> 0]
NoPre == [sheets |-> <<>>, counterCell |-> ""]
NoLoc == [now |-> 0, level |-> "", rows |-> <<>>, rowsToClear |-> <<>>,
          appendValues |-> <<>>, target |-> "", startRow |-> 0,
          currentSerial |-> "", orderSerial |-> "", batch |-> <<>>,
          readFailed |-> FALSE,
          password |-> "", tab |-> 0, row |-> 0, tabsRead |-> <<>>,
          match |-> NoUser]

\* a row typed into a sheet by hand: its date cell is not a date
LegacyRow == <<"n/a", "Maadi", "amr", "P1", "N0", "3", "6", "Drinks", "2",
               "", "AA1">>

InitOn(cells, rows) ==
    /\ sheets = [n \in SheetNames |-> rows]
    /\ counterCell \in cells
    /\ now = 0
    /\ pc = [p \in Procs |-> "idle"]
    /\ req = [p \in Procs |-> NoReq]
    /\ loc = [p \in Procs |-> NoLoc]
    /\ resp = [p \in Procs |-> NoResp]
    /\ calls = [p \in Procs |-> NoCalls]
    /\ pre = [p \in Procs |-> NoPre]
    /\ last = NoLast
    /\ nextLine = 1
    /\ faults = 0

\* sheets that hold their header row only
InitWith(cells) == InitOn(cells, <<HeaderRow>>)

\* the sheets in `bare` are tabs without any row, the other sheets hold
\* their header row
InitBare(bare) ==
    /\ sheets = [n \in SheetNames |->
                    IF n \in bare THEN <<>> ELSE <<HeaderRow>>]
    /\ counterCell = ""
    /\ now = 0
    /\ pc = [p \in Procs |-> "idle"]
    /\ req = [p \in Procs |-> NoReq]
    /\ loc = [p \in Procs |-> NoLoc]
    /\ resp = [p \in Procs |-> NoResp]
    /\ calls = [p \in Procs |-> NoCalls]
    /\ pre = [p \in Procs |-> NoPre]
    /\ last = NoLast
    /\ nextLine = 1
    /\ faults = 0

Init == InitWith({""})

\* res.status(s).json({success, orderSerial}); the locals are dropped
\* except the ones the response was computed from
Respond(p, status, success, orderSerial, l) ==
    /\ pc' = [pc EXCEPT ![p] = "done"]
    /\ resp' = [resp EXCEPT ![p] = [status |-> status, success |-> success,
                                    orderSerial |-> orderSerial]]
    /\ loc' = [loc EXCEPT ![p] = [NoLoc EXCEPT !.now = l.now,
                                               !.level = l.level,
                                               !.rows = l.rows,
                                               !.target = l.target,
                                               !.currentSerial = l.currentSerial,
                                               !.readFailed = l.readFailed,
                                               !.password = l.password,
                                               !.tabsRead = l.tabsRead,
                                               !.match = l.match]]

Goto(p, label, l) ==
    /\ pc' = [pc EXCEPT ![p] = label]
    /\ loc' = [loc EXCEPT ![p] = l]
    /\ UNCHANGED resp

Arrive(p, r) ==
    /\ pc[p] = "idle"
    /\ req' = [req EXCEPT ![p] = r]
    /\ pre' = [pre EXCEPT ![p] = [sheets |-> sheets,
                                  counterCell |-> counterCell]]
    /\ UNCHANGED <<sheets, counterCell, now, calls, last>>

\* a level check that lets every user with a level through
isL2AnyLevel(level) == toUpperCase(level) # ""

\* (userInfo.level || '').toUpperCase() === 'L2'
isL2(level) == toUpperCase(level) = "L2"

\* the prelude shared by the L2-only handlers: field validation, status
\* check, getUserInfoByUsername (which may fail), level check
L2Prelude(p, r, complete, statusOk, first, fault) ==
    LET userInfo == getUserInfoByUsername(r.username)
        l == [NoLoc EXCEPT !.level = userInfo.level]
    IN /\ fault => (complete /\ statusOk /\ faults < MaxFaults)
       /\ faults' = IF fault THEN faults + 1 ELSE faults
       /\ UNCHANGED nextLine
       /\ IF ~complete \/ ~statusOk
          THEN Arrive(p, brief(r)) /\ Respond(p, 400, FALSE, "", NoLoc)
          ELSE IF fault \/ userInfo.kind = "throw"
          THEN Arrive(p, brief(r)) /\ Respond(p, 500, FALSE, "", NoLoc)
          ELSE IF userInfo.kind = "null"
          THEN Arrive(p, brief(r)) /\ Respond(p, 400, FALSE, "", NoLoc)
          ELSE IF ~isL2(userInfo.level)
          THEN Arrive(p, brief(r)) /\ Respond(p, 403, FALSE, "", l)
          ELSE Arrive(p, r) /\ Goto(p, first, l)

\* status = (statusRaw || '').trim().toLowerCase() || 'waiting'
statusOf(statusRaw) == IF statusRaw = "" THEN "waiting" ELSE statusRaw

StartApproveOrder(p, D) ==
    \E username \in D.usernames, orderSerial \in D.serials,
       statusRaw \in D.statuses, fault \in D.masterFails :
        L2Prelude(p, Request("approveOrder", username, "", orderSerial,
                             statusOf(statusRaw), <<>>),
                  username # "" /\ orderSerial # "",
                  statusOf(statusRaw) = "waiting", "readWaiting", fault)

StartCancelOrder(p, D) ==
    \E username \in D.usernames, orderSerial \in D.serials,
       statusRaw \in D.statuses, fault \in D.masterFails :
        L2Prelude(p, Request("cancelOrder", username, "", orderSerial,
                             statusOf(statusRaw), <<>>),
                  username # "" /\ orderSerial # "",
                  statusOf(statusRaw) = "waiting", "readWaiting", fault)

StartApproveBranchOrder(p, D) ==
    \E username \in D.usernames, branchName \in D.branches,
       fault \in D.masterFails :
        L2Prelude(p, Request("approveBranchOrder", username, branchName, "",
                             "", <<>>),
                  username # "" /\ branchName # "",
                  TRUE, "readWaiting", fault)

StartUpdateWaitingOrder(p, D) ==
    \E username \in D.usernames, orderSerial \in D.serials,
       statusRaw \in D.statuses, items \in D.items, fault \in D.masterFails :
        L2Prelude(p, Request("updateWaitingOrder", username, "", orderSerial,
                             statusOf(statusRaw), items),
                  username # "" /\ orderSerial # "" /\ items # <<>>,
                  statusOf(statusRaw) = "waiting", "editRead", fault)

\* the query of a read-only handler: the fields it does not take stay empty
viewRequest(op, username, branchName, serial, statusRaw) ==
    Request(op, username,
            IF op \in {"approvalDetails", "orderDetailsForL2"}
            THEN branchName ELSE "",
            IF op \in {"orderDetailsForL2", "exportOrdersExcel",
                       "exportOrderExcel"}
            THEN serial ELSE "",
            IF op = "orderDetailsForL2"
            THEN (IF statusRaw \in {"approved", "cancelled"}
                  THEN statusRaw ELSE "waiting")
            ELSE "",
            <<>>)

\* the 400 'incomplete data' checks of the read-only handlers
viewComplete(r) ==
    /\ r.username # ""
    /\ r.op = "approvalDetails" => r.branchName # ""
    /\ r.op = "orderDetailsForL2" => (r.branchName # "" \/ r.orderSerial # "")
    /\ r.op \in {"exportOrdersExcel", "exportOrderExcel"}
           => r.orderSerial # ""

StartView(p, D) ==
    \E op \in D.views, username \in D.usernames, branchName \in D.branches,
       serial \in D.serials, statusRaw \in D.statuses,
       fault \in D.masterFails :
        LET r == viewRequest(op, username, branchName, serial, statusRaw)
        IN L2Prelude(p, r, viewComplete(r), TRUE,
                     IF op \in ThreeSheetOps THEN "viewNow" ELSE "viewRead",
                     fault)

\* previousOrders: open to every level; an unknown user is a throw
StartPreviousOrders(p, D) ==
    \E username \in D.usernames, branchName \in D.branches,
       fault \in D.masterFails :
        LET r == Request("previousOrders", username, branchName, "", "", <<>>)
            found == resolveBudgetSheetIdFromF2ByUsername(username)
        IN /\ fault => faults < MaxFaults
           /\ faults' = IF fault THEN faults + 1 ELSE faults
           /\ UNCHANGED nextLine
           /\ IF fault \/ found.kind = "throw"
              THEN Arrive(p, brief(r)) /\ Respond(p, 500, FALSE, "", NoLoc)
              ELSE Arrive(p, r) /\ Goto(p, "viewRead", NoLoc)

\* the product names of a submission: lines nextLine, nextLine + 1, ...
named(items) ==
    [k \in 1..Len(items) |->
        [productCode |-> items[k].productCode,
         productName |-> LineName(nextLine + k - 1),
         unitPrice |-> UnitPrice,
         quantity |-> items[k].quantity,
         subtotal |-> items[k].subtotal,
         category |-> "Drinks"]]

\* no branch restriction at all
branchAllowedAlways(userLevel, userBranch, branchName) == TRUE

\* submitOrder's branch restriction: it binds a non-L2 user whose
\* configured branch is not blank
branchAllowed(userLevel, userBranch, branchName) ==
    ~(userLevel # "L2" /\ userBranch # "" /\ userBranch # branchName)

\* every submission sent for approval
targetSheetWaiting(userLevel) == Waiting

\* userLevel === 'L2' ? 'Final Orders' : 'Waiting for Approval'
targetSheet(userLevel) == IF userLevel = "L2" THEN Final ELSE Waiting

StartSubmitOrder(p, D) ==
    \E username \in D.usernames, branchName \in D.branches,
       kinds \in D.orderItems, fault \in D.masterFails :
        LET r == Request("submitOrder", username, branchName, "", "",
                         named(kinds))
            complete == branchName # "" /\ kinds # <<>>
            userInfo == getUserInfoByUsername(username)
            userLevel == toUpperCase(IF userInfo.level = "" THEN "L1"
                                     ELSE userInfo.level)
            userBranch == userInfo.branch
            l == [NoLoc EXCEPT !.level = userLevel,
                               !.target = targetSheet(userLevel)]
        IN /\ fault => (complete /\ faults < MaxFaults)
           /\ faults' = IF fault THEN faults + 1 ELSE faults
           /\ IF ~complete
              THEN /\ Arrive(p, brief(r)) /\ Respond(p, 400, FALSE, "", NoLoc)
                   /\ UNCHANGED nextLine
              ELSE IF fault \/ userInfo.kind = "throw"
              THEN /\ Arrive(p, brief(r)) /\ Respond(p, 500, FALSE, "", NoLoc)
                   /\ UNCHANGED nextLine
              ELSE IF userInfo.kind = "null"
              THEN /\ Arrive(p, brief(r)) /\ Respond(p, 400, FALSE, "", NoLoc)
                   /\ UNCHANGED nextLine
              ELSE IF ~branchAllowed(userLevel, userBranch, branchName)
              THEN /\ Arrive(p, brief(r)) /\ Respond(p, 403, FALSE, "", l)
                   /\ UNCHANGED nextLine
              ELSE /\ nextLine + Len(kinds) - 1 <= D.lines
                   /\ nextLine' = nextLine + Len(kinds)
                   /\ Arrive(p, r) /\ Goto(p, "serialRead", l)

StartUpdatePreviousOrders(p, D) ==
    \E username \in D.usernames, branchName \in D.branches,
       updatedOrders \in D.updatedOrders, fault \in D.masterFails :
        LET r == Request("updatePreviousOrders", username, branchName, "",
                         "", updatedOrders)
            complete == branchName # "" /\ updatedOrders # <<>>
            found == resolveBudgetSheetIdFromF2ByUsername(username)
        IN /\ fault => (complete /\ faults < MaxFaults)
           /\ faults' = IF fault THEN faults + 1 ELSE faults
           /\ UNCHANGED nextLine
           /\ IF ~complete
              THEN Arrive(p, brief(r)) /\ Respond(p, 400, FALSE, "", NoLoc)
              ELSE IF fault \/ found.kind = "throw"
              THEN Arrive(p, brief(r)) /\ Respond(p, 500, FALSE, "", NoLoc)
              ELSE Arrive(p, r) /\ Goto(p, "prevRead", NoLoc)

\* loadOrderDataWithSpending: open to every level; an unknown user is a
\* throw
StartLoadOrderData(p, D) ==
    \E username \in D.usernames, branchName \in D.branches,
       fault \in D.masterFails :
        LET r == Request("loadOrderDataWithSpending", username, branchName,
                         "", "", <<>>)
            found == resolveBudgetSheetIdFromF2ByUsername(username)
        IN /\ fault => faults < MaxFaults
           /\ faults' = IF fault THEN faults + 1 ELSE faults
           /\ UNCHANGED nextLine
           /\ IF fault \/ found.kind = "throw"
              THEN Arrive(p, brief(r)) /\ Respond(p, 500, FALSE, "", NoLoc)
              ELSE Arrive(p, r) /\ Goto(p, "catalogRead", NoLoc)

(***************************************************************************)
(* Steps of the handlers: one store call each                              *)
(***************************************************************************)
Read(p) == calls' = [calls EXCEPT ![p].reads = @ + 1]
Write(p) == calls' = [calls EXCEPT ![p].writes = @ + 1]

\* the indexes i in from..Len(rows), in order, that are in the set `pass`
select(rows, from, pass) ==
    SelectSeq([i \in 1..Len(rows) |-> i], LAMBDA i : i >= from /\ i \in pass)

\* a filter that asks for a date cell, of any month
hasDate(row, t) == get(row, colA) # ""

\* rows of the current month: `if (!date || !isSameMonth(date, now)) continue`
inMonth(row, t) == isSameMonth(decodeDate(get(row, colA)), t)

\* a scan that forgets the month
serialRowsAnyMonth(rows, t, orderSerial) ==
    select(rows, 2, {i \in 1..Len(rows) : get(rows[i], colK) = orderSerial})

\* the scan of approveOrder / cancelOrder: sheet rows (1-based, the header
\* row 1 skipped) of the current month whose column K is the serial
serialRows(rows, t, orderSerial) ==
    select(rows, 2, {i \in 1..Len(rows) :
                        /\ inMonth(rows[i], t)
                        /\ get(rows[i], colK) = orderSerial})

\* a scan by branch that passes over the rows without a serial
branchRowsWithSerial(rows, t, branchName) ==
    select(rows, 2, {i \in 1..Len(rows) :
                        /\ inMonth(rows[i], t)
                        /\ get(rows[i], colB) = branchName
                        /\ get(rows[i], colK) # ""})

\* the scan of approveBranchOrder: column B is the branch
branchRows(rows, t, branchName) ==
    select(rows, 2, {i \in 1..Len(rows) :
                        /\ inMonth(rows[i], t)
                        /\ get(rows[i], colB) = branchName})

\* every move sent to 'Final Orders'
moveTargetFinal(op) == Final

\* the sheet appendRowsAtoK is called with by the three move handlers
moveTarget(op) == IF op = "cancelOrder" THEN Cancelled ELSE Final

\* values.get of 'Waiting for Approval', the scan, and the rows to move
ReadWaiting(p) ==
    /\ pc[p] = "readWaiting"
    /\ Read(p)
    /\ LET rows == valuesGet(sheets[Waiting])
           rowsToClear ==
               IF req[p].op = "approveBranchOrder"
               THEN branchRows(rows, now, req[p].branchName)
               ELSE serialRows(rows, now, req[p].orderSerial)
           appendValues == [k \in 1..Len(rowsToClear) |->
                               padRow(rows[rowsToClear[k]])]
           l == [loc[p] EXCEPT
                    !.now = now,
                    !.rowsToClear = rowsToClear,
                    !.appendValues = appendValues,
                    !.target = moveTarget(req[p].op)]
       IN IF rowsToClear = <<>>
          THEN Respond(p, 400, FALSE, "", l)
          ELSE Goto(p, "appendScan", l)
    /\ UNCHANGED <<sheets, counterCell, now, req, pre, last, nextLine, faults>>

\* appendRowsAtoK, first half: values.get of column A, lastRow, startRow
AppendScan(p) ==
    /\ pc[p] = "appendScan"
    /\ Read(p)
    /\ Goto(p, "appendWrite",
            [loc[p] EXCEPT !.startRow = lastRow(sheets[loc[p].target]) + 1])
    /\ UNCHANGED <<sheets, counterCell, now, req, pre, last, nextLine, faults>>

\* an append after which every handler answers success
AppendWriteThenAnswer(p) ==
    /\ pc[p] = "appendWrite"
    /\ Write(p)
    /\ sheets' = [sheets EXCEPT ![loc[p].target] =
                     valuesUpdate(@, loc[p].startRow, loc[p].appendValues)]
    /\ Respond(p, 200, TRUE, loc[p].orderSerial, loc[p])
    /\ UNCHANGED <<counterCell, now, req, pre, last, nextLine, faults>>

\* appendRowsAtoK, second half: values.update at A<startRow>:K<endRow>;
\* submitOrder then responds, the approve / cancel handlers go on to clear
AppendWrite(p) ==
    /\ pc[p] = "appendWrite"
    /\ Write(p)
    /\ sheets' = [sheets EXCEPT ![loc[p].target] =
                     valuesUpdate(@, loc[p].startRow, loc[p].appendValues)]
    /\ IF req[p].op = "submitOrder"
       THEN Respond(p, 200, TRUE, loc[p].orderSerial, loc[p])
       ELSE Goto(p, "clearWaiting", loc[p])
    /\ UNCHANGED <<counterCell, now, req, pre, last, nextLine, faults>>

\* ranges built from the 0-based index: A<idx>:K<idx>
clearDataOffByOne(rowsToClear) ==
    [k \in 1..Len(rowsToClear) |->
        [row |-> rowsToClear[k] - 1, col |-> colA, values |-> BlankRow]]

\* clearData = rowsToClear.map(idx => ({range: A<idx+1>:K<idx+1>, ...}))
clearData(rowsToClear) ==
    [k \in 1..Len(rowsToClear) |->
        [row |-> rowsToClear[k], col |-> colA, values |-> BlankRow]]

\* values.batchUpdate blanking A<idx+1>:K<idx+1> of every moved row
ClearWaiting(p) ==
    /\ pc[p] = "clearWaiting"
    /\ Write(p)
    /\ sheets' = [sheets EXCEPT ![Waiting] =
                     applyBatch(@, clearData(loc[p].rowsToClear))]
    /\ Respond(p, 200, TRUE, "", loc[p])
    /\ UNCHANGED <<counterCell, now, req, pre, last, nextLine, faults>>

\* getNextOrderSerial, the read of 'Serial Numbers!B2'
SerialRead(p) ==
    /\ pc[p] = "serialRead"
    /\ Read(p)
    /\ Goto(p, "serialWrite", [loc[p] EXCEPT !.currentSerial = counterCell])
    /\ UNCHANGED <<sheets, counterCell, now, req, pre, last, nextLine, faults>>

\* a failed read that is passed on to the handler's catch block
SerialReadFailPropagates(p) ==
    /\ pc[p] = "serialRead"
    /\ faults < MaxFaults
    /\ faults' = faults + 1
    /\ calls' = [calls EXCEPT ![p].reads = @ + 1]
    /\ Respond(p, 500, FALSE, "", [loc[p] EXCEPT !.readFailed = TRUE])
    /\ UNCHANGED <<sheets, counterCell, now, req, pre, last, nextLine>>

\* the read fails: the catch block sets currentSerial = ''
SerialReadFail(p) ==
    /\ pc[p] = "serialRead"
    /\ faults < MaxFaults
    /\ faults' = faults + 1
    /\ Read(p)
    /\ Goto(p, "serialWrite", [loc[p] EXCEPT !.currentSerial = "",
                                             !.readFailed = TRUE])
    /\ UNCHANGED <<sheets, counterCell, now, req, pre, last, nextLine>>

\* a number written to a cell is read back as its text
cellOf(n) == IF n < 0 THEN "-" \o NumStr[0 - n] ELSE NumStr[n]

\* orderItems.map(...) of submitOrder
submitRow(i, t, branchName, username, orderSerial) ==
    LET price == i.unitPrice
        qty == i.quantity
        subtotal == IF i.subtotal # Absent THEN i.subtotal ELSE price * qty
    IN <<dateString(t), branchName, username, i.productCode, i.productName,
         cellOf(price), cellOf(subtotal), i.category, cellOf(qty), "",
         orderSerial>>

\* getNextOrderSerial, the write of the new serial; back in submitOrder the
\* date stamp is taken and the rows are built
SerialWrite(p) ==
    /\ pc[p] = "serialWrite"
    /\ Write(p)
    /\ LET orderSerial == newSerial(loc[p].currentSerial)
       IN /\ counterCell' = orderSerial
          /\ Goto(p, "appendScan",
                  [loc[p] EXCEPT
                      !.orderSerial = orderSerial,
                      !.now = now,
                      !.appendValues =
                          [k \in 1..Len(req[p].items) |->
                              submitRow(req[p].items[k], now,
                                        req[p].branchName, req[p].username,
                                        orderSerial)]])
    /\ UNCHANGED <<sheets, now, req, pre, last, nextLine, faults>>

\* an index that keeps the first matching row
firstIndex(rows, idxs, code) ==
    LET hits == SelectSeq(idxs, LAMBDA i : get(rows[i], colD) = code)
    IN IF hits = <<>> THEN 0 ELSE hits[1]

\* `index[code] = i` over the scan: the last matching row, 0 if none
lastIndex(rows, idxs, code) ==
    LET hits == SelectSeq(idxs, LAMBDA i : get(rows[i], colD) = code)
    IN IF hits = <<>> THEN 0 ELSE hits[Len(hits)]

\* an update of the quantity that leaves the subtotal as it is
qtyUpdateQtyOnly(rows, r, quantity) ==
    << [row |-> r, col |-> colI, values |-> <<cellOf(Max(0, quantity))>>] >>

\* the two ranges pushed for one item: cell I then cell G of the row
qtyUpdate(rows, r, quantity) ==
    LET unitPrice == orZero(parseNum(get(rows[r], colF)))
        qty == Max(0, quantity)
    IN << [row |-> r, col |-> colI, values |-> <<cellOf(qty)>>],
          [row |-> r, col |-> colG, values |-> <<cellOf(unitPrice * qty)>>] >>

RECURSIVE editBatch(_, _, _)
\* for (const item of items) of updateWaitingOrder
editBatch(rows, idxs, items) ==
    IF items = <<>> THEN <<>>
    ELSE LET item == Head(items)
             r == lastIndex(rows, idxs, item.productCode)
         IN (IF item.productCode = "" \/ r = 0 THEN <<>>
             ELSE qtyUpdate(rows, r, item.quantity))
            \o editBatch(rows, idxs, Tail(items))

\* updateWaitingOrder: values.get of Waiting, index by product code, batch
EditRead(p) ==
    /\ pc[p] = "editRead"
    /\ Read(p)
    /\ LET rows == valuesGet(sheets[Waiting])
           idxs == select(rows, 2,
                          {i \in 1..Len(rows) :
                              /\ inMonth(rows[i], now)
                              /\ get(rows[i], colK) = req[p].orderSerial
                              /\ get(rows[i], colD) # ""})
           batch == editBatch(rows, idxs, req[p].items)
           l == [loc[p] EXCEPT !.now = now, !.batch = batch]
       IN IF batch = <<>>
          THEN Respond(p, 400, FALSE, "", l)
          ELSE Goto(p, "editWrite", l)
    /\ UNCHANGED <<sheets, counterCell, now, req, pre, last, nextLine, faults>>

\* updateWaitingOrder: values.batchUpdate of the I and G cells
EditWrite(p) ==
    /\ pc[p] = "editWrite"
    /\ Write(p)
    /\ sheets' = [sheets EXCEPT ![Waiting] = applyBatch(@, loc[p].batch)]
    /\ Respond(p, 200, TRUE, "", loc[p])
    /\ UNCHANGED <<counterCell, now, req, pre, last, nextLine, faults>>

RECURSIVE returnBatch(_, _, _)
\* updatedOrders.forEach(...) of updatePreviousOrders; rowIndex is 0-based
returnBatch(rows, idxs, items) ==
    IF items = <<>> THEN <<>>
    ELSE LET o == Head(items)
             r == IF o.rowIndex # Absent /\ o.rowIndex > 0
                     /\ o.rowIndex < Len(rows)
                  THEN o.rowIndex + 1
                  ELSE lastIndex(rows, idxs, o.productCode)
         IN (IF r = 0 THEN <<>> ELSE qtyUpdate(rows, r, o.quantity))
            \o returnBatch(rows, idxs, Tail(items))

\* updatePreviousOrders: values.get of Final Orders, latestIndex, batch
PrevRead(p) ==
    /\ pc[p] = "prevRead"
    /\ Read(p)
    /\ LET rows == valuesGet(sheets[Final])
           idxs == branchRows(rows, now, req[p].branchName)
           batch == returnBatch(rows, idxs, req[p].items)
           l == [loc[p] EXCEPT !.now = now, !.batch = batch]
       IN IF batch = <<>>
          THEN Respond(p, 400, FALSE, "", l)
          ELSE Goto(p, "prevWrite", l)
    /\ UNCHANGED <<sheets, counterCell, now, req, pre, last, nextLine, faults>>

\* updatePreviousOrders: values.batchUpdate of the I and G cells
PrevWrite(p) ==
    /\ pc[p] = "prevWrite"
    /\ Write(p)
    /\ sheets' = [sheets EXCEPT ![Final] = applyBatch(@, loc[p].batch)]
    /\ Respond(p, 200, TRUE, "", loc[p])
    /\ UNCHANGED <<counterCell, now, req, pre, last, nextLine, faults>>

\* `const now = new Date()` of the summary and the exports, taken before
\* the sheets are read
ViewNow(p) ==
    /\ pc[p] = "viewNow"
    /\ Goto(p, "viewRead", [loc[p] EXCEPT !.now = now, !.target = Waiting])
    /\ UNCHANGED <<sheets, counterCell, now, req, calls, pre, last, nextLine,
                   faults>>

\* the sheet a read-only handler reads next
viewSheet(r, l) ==
    IF r.op \in ThreeSheetOps THEN l.target
    ELSE IF r.op = "previousOrders" THEN Final
    ELSE IF r.op = "orderDetailsForL2"
    THEN (IF r.status = "waiting" THEN Waiting
          ELSE IF r.status = "approved" THEN Final ELSE Cancelled)
    ELSE Waiting

\* the rows a read-only handler's loop does not `continue` past: the month
\* filter first, then the handler's own filters on branch and serial
viewRows(r, rows, t) ==
    select(rows, 2,
           {i \in 1..Len(rows) :
               /\ inMonth(rows[i], t)
               /\ CASE r.op \in {"approvalsSummary", "pendingOrders"} ->
                           get(rows[i], colB) # ""
                     [] r.op \in {"approvalDetails", "previousOrders"} ->
                           get(rows[i], colB) = r.branchName
                     [] r.op = "orderDetailsForL2" ->
                           IF r.orderSerial # ""
                           THEN get(rows[i], colK) = r.orderSerial
                           ELSE get(rows[i], colB) = r.branchName
                     [] r.op = "ordersSummaryForL2" ->
                           get(rows[i], colB) # "" /\ get(rows[i], colK) # ""
                     [] OTHER ->
                           /\ get(rows[i], colB) # ""
                           /\ get(rows[i], colK) # ""
                           /\ get(rows[i], colK) = r.orderSerial})

\* the read-only handlers: values.get of one order sheet and the rows of it
\* that enter the result; the summary and the exports go on to the next
\* sheet, the exports answer 400 when they found no row
ViewRead(p) ==
    /\ pc[p] = "viewRead"
    /\ Read(p)
    /\ LET r == req[p]
           name == viewSheet(r, loc[p])
           rows == valuesGet(sheets[name])
           t == IF r.op \in ThreeSheetOps THEN loc[p].now ELSE now
           idxs == viewRows(r, rows, t)
           found == [k \in 1..Len(idxs) |->
                        [sheet |-> name, index |-> idxs[k],
                         cells |-> padRow(rows[idxs[k]])]]
           l == [loc[p] EXCEPT !.now = t, !.rows = @ \o found]
       IN IF r.op \in ThreeSheetOps /\ name # Cancelled
          THEN Goto(p, "viewRead",
                    [l EXCEPT !.target = IF name = Waiting THEN Final
                                         ELSE Cancelled])
          ELSE IF r.op \in {"exportOrdersExcel", "exportOrderExcel"}
                  /\ l.rows = <<>>
          THEN Respond(p, 400, FALSE, "", l)
          ELSE Respond(p, 200, TRUE, "", l)
    /\ UNCHANGED <<sheets, counterCell, now, req, pre, last, nextLine, faults>>

\* the one read whose failure the summary and the two exports catch on the
\* spot: values.get of 'Cancelled Orders', the last of their three sheets
toleratedRead(p) ==
    /\ pc[p] = "viewRead"
    /\ req[p].op \in ThreeSheetOps
    /\ loc[p].target = Cancelled

\* a failed read of 'Cancelled Orders' that is passed on to the handler's
\* catch block
ViewReadFailPropagates(p) ==
    /\ toleratedRead(p)
    /\ faults < MaxFaults
    /\ faults' = faults + 1
    /\ Read(p)
    /\ Respond(p, 500, FALSE, "", [loc[p] EXCEPT !.readFailed = TRUE])
    /\ UNCHANGED <<sheets, counterCell, now, req, pre, last, nextLine>>

\* the read of 'Cancelled Orders' fails: the inner catch logs it and the
\* handler answers from the rows of the other two sheets
ViewReadFail(p) ==
    /\ toleratedRead(p)
    /\ faults < MaxFaults
    /\ faults' = faults + 1
    /\ Read(p)
    /\ LET l == [loc[p] EXCEPT !.readFailed = TRUE]
       IN IF req[p].op \in {"exportOrdersExcel", "exportOrderExcel"}
             /\ l.rows = <<>>
          THEN Respond(p, 400, FALSE, "", l)
          ELSE Respond(p, 200, TRUE, "", l)
    /\ UNCHANGED <<sheets, counterCell, now, req, pre, last, nextLine>>

\* the status label processSheet is called with for each sheet
statusKey(sheet) ==
    IF sheet = Waiting THEN "Waiting"
    ELSE IF sheet = Final THEN "Approved" ELSE "Cancelled"

\* a key that forgets the status
summaryKeyBySerial(serial, status) == serial \o "__"

\* const key = `${serial}__${statusKey}`
summaryKey(serial, status) == serial \o "__" \o status

\* the item processSheet pushes for a row (the image of the catalog is not
\* modelled): unitPrice = parseFloat(row[5]) || 0, qty = parseInt(row[8])
\* || 0, subtotal = parseFloat(row[6]) || unitPrice * qty
summaryItem(cells) ==
    LET unitPrice == orZero(parseNum(cells[colF]))
        qty == orZero(parseNum(cells[colI]))
        given == orZero(parseNum(cells[colG]))
    IN [productCode |-> cells[colD],
        productName |-> cells[colE],
        unitPrice |-> unitPrice,
        quantity |-> qty,
        subtotal |-> IF given # 0 THEN given ELSE unitPrice * qty,
        category |-> cells[colH]]

\* the body of processSheet's loop for one row that passed its filters:
\* the entry of the row's key is created if there is none, then the row is
\* merged into it; the entries are kept in the order of their creation
summaryMerge(map, line) ==
    LET cells == line.cells
        date == decodeDate(cells[colA])
        status == statusKey(line.sheet)
        key == summaryKey(cells[colK], status)
        item == summaryItem(cells)
        fresh == [key |-> key, serial |-> cells[colK],
                  branchName |-> cells[colB], status |-> status,
                  total |-> 0, createdAt |-> date, requestors |-> <<>>,
                  items |-> <<>>]
        at == {k \in 1..Len(map) : map[k].key = key}
        m == IF at = {} THEN Append(map, fresh) ELSE map
        k == CHOOSE j \in 1..Len(m) : m[j].key = key
        entry == m[k]
        isNew == cells[colC] # ""
                 /\ \A j \in 1..Len(entry.requestors) :
                        entry.requestors[j] # cells[colC]
    IN [m EXCEPT ![k] =
           [entry EXCEPT
               !.total = @ + item.subtotal,
               !.createdAt = IF date < @ THEN date ELSE @,
               !.requestors = IF isNew THEN Append(@, cells[colC]) ELSE @,
               !.items = Append(@, item)]]

\* processSheet over the rows of the three sheets, in the order read
RECURSIVE summaryMap(_, _)
summaryMap(map, found) ==
    IF found = <<>> THEN map
    ELSE summaryMap(summaryMerge(map, Head(found)), Tail(found))

\* the text the summary gives an order of more than one requester
MultipleUsers == "multiple users"

\* Object.values(summaryMap).map(...): the orders of the response
summaryOrders(found) ==
    LET map == summaryMap(<<>>, found)
    IN [k \in 1..Len(map) |->
           LET entry == map[k]
               creators == entry.requestors
           IN [orderId |-> entry.serial \o "__" \o toLowerCase(entry.status),
               serial |-> entry.serial,
               branchName |-> entry.branchName,
               status |-> entry.status,
               requestedBy |-> IF Len(creators) = 0 THEN ""
                                ELSE IF Len(creators) = 1 THEN creators[1]
                                ELSE MultipleUsers,
               createdAt |-> toCairoString(entry.createdAt),
               total |-> entry.total,
               items |-> entry.items]]

\* loadOrderDataWithSpending: values.get of 'Product Catalog' and
\* res.json({products}), status 200
CatalogRead(p) ==
    /\ pc[p] = "catalogRead"
    /\ Read(p)
    /\ Respond(p, 200, TRUE, "", loc[p])
    /\ UNCHANGED <<sheets, counterCell, now, req, pre, last, nextLine, faults>>

\* POST /api/validateLogin: spreadsheets.get of the master store's tab
\* titles, which may fail
StartValidateLogin(p, D) ==
    \E username \in D.usernames, password \in D.passwords,
       fault \in D.masterFails :
        LET r == Request("validateLogin", username, "", "", "", <<>>)
            l == [NoLoc EXCEPT !.password = password, !.tab = 1]
        IN /\ fault => faults < MaxFaults
           /\ faults' = IF fault THEN faults + 1 ELSE faults
           /\ UNCHANGED nextLine
           /\ Arrive(p, r)
           /\ IF fault
              THEN Respond(p, 500, FALSE, "", [l EXCEPT !.readFailed = TRUE])
              ELSE IF clientTabs = <<>>
              THEN Respond(p, 200, FALSE, "", l)
              ELSE Goto(p, "loginRead", l)

\* findClientTabAndSheetIdByUser: values.get of `${title}!A2:Z` of the next
\* client tab and the scan of its rows; with no match in the last tab the
\* helper returns null and validateLogin answers res.json({success: false})
LoginRead(p) ==
    /\ pc[p] = "loginRead"
    /\ LET t == clientTabs[loc[p].tab]
           r == matchRow(t.rows, 1, req[p].username, loc[p].password)
           l == [loc[p] EXCEPT !.tabsRead = Append(@, t.title), !.row = r]
       IN IF r # 0 THEN Goto(p, "loginF2", l)
          ELSE IF loc[p].tab = Len(clientTabs)
          THEN Respond(p, 200, FALSE, "", l)
          ELSE Goto(p, "loginRead", [l EXCEPT !.tab = @ + 1])
    /\ UNCHANGED <<sheets, counterCell, now, req, calls, pre, last, nextLine,
                   faults>>

\* values.get of `${title}!F2` of the matched tab: a blank cell is a throw,
\* which validateLogin answers with 500; otherwise res.json({success: true,
\* user})
LoginF2(p) ==
    /\ pc[p] = "loginF2"
    /\ LET t == clientTabs[loc[p].tab]
           match == userRecord(t, t.rows[loc[p].row])
       IN IF match.kind = "throw"
          THEN Respond(p, 500, FALSE, "", loc[p])
          ELSE Respond(p, 200, TRUE, "", [loc[p] EXCEPT !.match = match])
    /\ UNCHANGED <<sheets, counterCell, now, req, calls, pre, last, nextLine,
                   faults>>

\* a read of the master store rejects: validateLogin's catch block
LoginFail(p) ==
    /\ pc[p] \in {"loginRead", "loginF2"}
    /\ faults < MaxFaults
    /\ faults' = faults + 1
    /\ Respond(p, 500, FALSE, "", [loc[p] EXCEPT !.readFailed = TRUE])
    /\ UNCHANGED <<sheets, counterCell, now, req, calls, pre, last, nextLine>>

ReadPcs == {"readWaiting", "appendScan", "editRead", "prevRead", "viewRead",
            "catalogRead"}
WritePcs == {"appendWrite", "clearWaiting", "serialWrite", "editWrite",
             "prevWrite"}

\* a store call that rejects outside a try block: no response is sent
FailUnanswered(p) ==
    /\ pc[p] \in ReadPcs \cup WritePcs
    /\ ~toleratedRead(p)
    /\ faults < MaxFaults
    /\ faults' = faults + 1
    /\ IF pc[p] \in ReadPcs THEN Read(p) ELSE Write(p)
    /\ Goto(p, "unhandled", loc[p])
    /\ UNCHANGED <<sheets, counterCell, now, req, pre, last, nextLine>>

\* a store call rejects: the handler's catch block answers 500
Fail(p) ==
    /\ pc[p] \in ReadPcs \cup WritePcs
    /\ ~toleratedRead(p)
    /\ faults < MaxFaults
    /\ faults' = faults + 1
    /\ IF pc[p] \in ReadPcs THEN Read(p) ELSE Write(p)
    /\ Respond(p, 500, FALSE, "", loc[p])
    /\ UNCHANGED <<sheets, counterCell, now, req, pre, last, nextLine>>

\* the request is over; its outcome is remembered as the latest one
Return(p) ==
    /\ pc[p] = "done"
    /\ pc' = [pc EXCEPT ![p] = "idle"]
    /\ last' = IF req[p].op \in {"approveOrder", "cancelOrder"}
                  /\ resp[p].success
               THEN [op |-> "move", orderSerial |-> req[p].orderSerial]
               ELSE IF req[p].op = "submitOrder" /\ resp[p].success
               THEN [op |-> "submit", orderSerial |-> resp[p].orderSerial]
               ELSE NoLast
    /\ req' = [req EXCEPT ![p] = NoReq]
    /\ loc' = [loc EXCEPT ![p] = NoLoc]
    /\ resp' = [resp EXCEPT ![p] = NoResp]
    /\ calls' = [calls EXCEPT ![p] = NoCalls]
    /\ pre' = [pre EXCEPT ![p] = NoPre]
    /\ UNCHANGED <<sheets, counterCell, now, nextLine, faults>>

Tick ==
    /\ now < MaxTime
    /\ now' = now + 1
    /\ UNCHANGED <<sheets, counterCell, pc, req, loc, resp, calls, pre, last,
                   nextLine, faults>>

(***************************************************************************)
(* Specifications.  Each runs the handlers above on the requests of one    *)
(* family; `lines` caps the lines the submissions of a run create.         *)
(***************************************************************************)

\* submit, approve and cancel, one request at a time, no store failure
MoveRequests ==
    [usernames |-> {"amr", "sara"},
     branches |-> {"Maadi"},
     serials |-> {"AA1", "AA2"},
     statuses |-> {""},
     orderItems |-> Lists(Juice, Water),
     masterFails |-> {FALSE},
     lines |-> MaxLines]

MoveNext ==
    \/ Tick
    \/ StartSubmitOrder(1, MoveRequests)
    \/ StartApproveOrder(1, MoveRequests)
    \/ StartCancelOrder(1, MoveRequests)
    \/ SerialRead(1)
    \/ SerialWrite(1)
    \/ ReadWaiting(1)
    \/ AppendScan(1)
    \/ AppendWrite(1)
    \/ ClearWaiting(1)
    \/ Return(1)

MoveSpec == Init /\ [][MoveNext]_vars

\* the six handlers that write to the sheets, one request at a time
LedgerRequests ==
    [usernames |-> {"amr", "sara"},
     branches |-> {"Maadi"},
     serials |-> {"AA1"},
     statuses |-> {""},
     orderItems |-> {<<Juice>>},
     items |-> {<<MoreJuice>>, <<LessWater>>},
     updatedOrders |-> {<<ReturnJuice>>, <<ReturnRow>>},
     masterFails |-> {FALSE},
     lines |-> MaxLines]

LedgerNext ==
    \/ Tick
    \/ StartSubmitOrder(1, LedgerRequests)
    \/ StartApproveOrder(1, LedgerRequests)
    \/ StartCancelOrder(1, LedgerRequests)
    \/ StartApproveBranchOrder(1, LedgerRequests)
    \/ StartUpdateWaitingOrder(1, LedgerRequests)
    \/ StartUpdatePreviousOrders(1, LedgerRequests)
    \/ SerialRead(1)
    \/ SerialWrite(1)
    \/ ReadWaiting(1)
    \/ AppendScan(1)
    \/ AppendWrite(1)
    \/ ClearWaiting(1)
    \/ EditRead(1)
    \/ EditWrite(1)
    \/ PrevRead(1)
    \/ PrevWrite(1)
    \/ Return(1)

LedgerSpec == Init /\ [][LedgerNext]_vars

\* every handler, called by users of each level and branch setting
AuthRequests ==
    [usernames |-> {"amr", "sara", "omar"},
     branches |-> {"Maadi", "Zayed"},
     serials |-> {"AA1"},
     statuses |-> {""},
     orderItems |-> {<<Juice>>},
     items |-> {<<MoreJuice>>},
     updatedOrders |-> {<<ReturnJuice>>},
     views |-> ViewOps,
     masterFails |-> {FALSE},
     lines |-> 1]

AuthNext ==
    \/ StartSubmitOrder(1, AuthRequests)
    \/ StartApproveOrder(1, AuthRequests)
    \/ StartCancelOrder(1, AuthRequests)
    \/ StartApproveBranchOrder(1, AuthRequests)
    \/ StartUpdateWaitingOrder(1, AuthRequests)
    \/ StartUpdatePreviousOrders(1, AuthRequests)
    \/ StartView(1, AuthRequests)
    \/ SerialRead(1)
    \/ SerialWrite(1)
    \/ ReadWaiting(1)
    \/ AppendScan(1)
    \/ AppendWrite(1)
    \/ ClearWaiting(1)
    \/ EditRead(1)
    \/ EditWrite(1)
    \/ PrevRead(1)
    \/ PrevWrite(1)
    \/ ViewNow(1)
    \/ ViewRead(1)
    \/ Return(1)

AuthSpec == Init /\ [][AuthNext]_vars

\* submissions alone, on a counter cell of any content, the read of the
\* cell or any other store call failing at most MaxFaults times
SerialRequests ==
    [usernames |-> {"amr"},
     branches |-> {"Maadi"},
     orderItems |-> {<<Juice>>},
     masterFails |-> {FALSE},
     lines |-> MaxLines]

SerialNext ==
    \/ StartSubmitOrder(1, SerialRequests)
    \/ SerialRead(1)
    \/ SerialReadFail(1)
    \/ SerialWrite(1)
    \/ AppendScan(1)
    \/ AppendWrite(1)
    \/ Fail(1)
    \/ Return(1)

SerialSpec == InitWith(CounterCells) /\ [][SerialNext]_vars

\* submissions in flight together
RacingRequests ==
    [usernames |-> {"amr", "sara"},
     branches |-> {"Maadi"},
     orderItems |-> {<<Juice>>},
     masterFails |-> {FALSE},
     lines |-> MaxLines]

Next ==
    \E p \in Procs :
        \/ StartSubmitOrder(p, RacingRequests)
        \/ SerialRead(p)
        \/ SerialWrite(p)
        \/ AppendScan(p)
        \/ AppendWrite(p)
        \/ Return(p)

Spec == Init /\ [][Next]_vars

\* an approval and a cancellation in flight together: request 1 submits and
\* approves, request 2 cancels
MoveRaceRequests ==
    [usernames |-> {"amr", "sara"},
     branches |-> {"Maadi"},
     serials |-> {"AA1"},
     statuses |-> {""},
     orderItems |-> Lists(Juice, Water),
     masterFails |-> {FALSE},
     lines |-> MaxLines]

MoveRaceNext ==
    \/ StartSubmitOrder(1, MoveRaceRequests)
    \/ StartApproveOrder(1, MoveRaceRequests)
    \/ StartCancelOrder(2, MoveRaceRequests)
    \/ SerialRead(1)
    \/ SerialWrite(1)
    \/ \E p \in Procs :
           \/ ReadWaiting(p)
           \/ AppendScan(p)
           \/ AppendWrite(p)
           \/ ClearWaiting(p)
           \/ Return(p)

MoveRaceSpec == Init /\ [][MoveRaceNext]_vars

\* submissions of one or two lines and the edits of their quantities, up
\* and down and below zero, over the turn of the month
EditRequests ==
    [usernames |-> {"amr", "sara"},
     branches |-> {"Maadi"},
     serials |-> {"AA1", "AA2"},
     statuses |-> {""},
     orderItems |-> Lists(Juice, Water),
     items |-> {<<MoreJuice>>, <<LessWater>>, <<MoreJuice, LessWater>>},
     masterFails |-> {FALSE},
     lines |-> MaxLines]

EditNext ==
    \/ Tick
    \/ StartSubmitOrder(1, EditRequests)
    \/ StartUpdateWaitingOrder(1, EditRequests)
    \/ SerialRead(1)
    \/ SerialWrite(1)
    \/ AppendScan(1)
    \/ AppendWrite(1)
    \/ EditRead(1)
    \/ EditWrite(1)
    \/ Return(1)

EditSpec == Init /\ [][EditNext]_vars

\* every handler that writes a quantity: submissions with and without an
\* explicit subtotal, edits and returns
QuantityRequests ==
    [usernames |-> {"amr", "sara"},
     branches |-> {"Maadi"},
     serials |-> {"AA1"},
     statuses |-> {""},
     orderItems |-> Lists(Juice, Water) \cup {<<NoJuice>>},
     items |-> {<<MoreJuice>>, <<LessWater>>},
     updatedOrders |-> {<<ReturnJuice>>, <<ReturnRow>>},
     masterFails |-> {FALSE},
     lines |-> MaxLines]

QuantityNext ==
    \/ Tick
    \/ StartSubmitOrder(1, QuantityRequests)
    \/ StartUpdateWaitingOrder(1, QuantityRequests)
    \/ StartUpdatePreviousOrders(1, QuantityRequests)
    \/ SerialRead(1)
    \/ SerialWrite(1)
    \/ AppendScan(1)
    \/ AppendWrite(1)
    \/ EditRead(1)
    \/ EditWrite(1)
    \/ PrevRead(1)
    \/ PrevWrite(1)
    \/ Return(1)

QuantitySpec == Init /\ [][QuantityNext]_vars

\* logins with every pairing of the usernames and passwords of the master
\* store, and with names and passwords it does not hold
LoginRequests ==
    [usernames |-> Usernames,
     passwords |-> {"pw", "pw2", "nope", ""},
     masterFails |-> {FALSE, TRUE}]

LoginNext ==
    \/ StartValidateLogin(1, LoginRequests)
    \/ LoginRead(1)
    \/ LoginF2(1)
    \/ LoginFail(1)
    \/ Return(1)

LoginSpec == Init /\ [][LoginNext]_vars

\* every endpoint, called by known users, by one whose partition has no
\* budgetSheetId, and by unknown ones
ResponseRequests ==
    [usernames |-> {"amr", "sara", "zed", "nobody"},
     passwords |-> {"pw", "nope"},
     branches |-> {"Maadi"},
     serials |-> {"AA1"},
     statuses |-> {""},
     orderItems |-> {<<Juice>>},
     items |-> {<<MoreJuice>>},
     updatedOrders |-> {<<ReturnJuice>>},
     views |-> ViewOps,
     masterFails |-> {FALSE},
     lines |-> 1]

ResponseNext ==
    \/ StartValidateLogin(1, ResponseRequests)
    \/ StartLoadOrderData(1, ResponseRequests)
    \/ StartPreviousOrders(1, ResponseRequests)
    \/ StartSubmitOrder(1, ResponseRequests)
    \/ StartApproveOrder(1, ResponseRequests)
    \/ StartCancelOrder(1, ResponseRequests)
    \/ StartApproveBranchOrder(1, ResponseRequests)
    \/ StartUpdateWaitingOrder(1, ResponseRequests)
    \/ StartUpdatePreviousOrders(1, ResponseRequests)
    \/ StartView(1, ResponseRequests)
    \/ LoginRead(1)
    \/ LoginF2(1)
    \/ CatalogRead(1)
    \/ SerialRead(1)
    \/ SerialWrite(1)
    \/ ReadWaiting(1)
    \/ AppendScan(1)
    \/ AppendWrite(1)
    \/ ClearWaiting(1)
    \/ EditRead(1)
    \/ EditWrite(1)
    \/ PrevRead(1)
    \/ PrevWrite(1)
    \/ ViewNow(1)
    \/ ViewRead(1)
    \/ Return(1)

ResponseSpec == Init /\ [][ResponseNext]_vars

\* the read-only handlers next to the submissions and moves whose rows they
\* show, over the turn of the month; every sheet starts with a hand-typed row
ViewRequests ==
    [usernames |-> {"amr", "sara"},
     branches |-> {"Maadi"},
     serials |-> {"AA1", ""},
     statuses |-> {"", "approved", "cancelled"},
     orderItems |-> {<<Juice>>},
     views |-> ViewOps,
     masterFails |-> {FALSE},
     lines |-> MaxLines - 1]

ViewNext ==
    \/ Tick
    \/ StartSubmitOrder(1, ViewRequests)
    \/ StartApproveOrder(1, ViewRequests)
    \/ StartCancelOrder(1, ViewRequests)
    \/ StartApproveBranchOrder(1, ViewRequests)
    \/ StartView(1, ViewRequests)
    \/ StartPreviousOrders(1, ViewRequests)
    \/ SerialRead(1)
    \/ SerialWrite(1)
    \/ ReadWaiting(1)
    \/ AppendScan(1)
    \/ AppendWrite(1)
    \/ ClearWaiting(1)
    \/ ViewNow(1)
    \/ ViewRead(1)
    \/ Return(1)

ViewSpec == InitOn({""}, <<HeaderRow, LegacyRow>>) /\ [][ViewNext]_vars

\* every endpoint with the store failing: any call of a request, the
\* look-up in the master store included, may reject, MaxFaults times in all
FaultRequests ==
    [usernames |-> {"amr", "sara"},
     passwords |-> {"pw"},
     branches |-> {"Maadi"},
     serials |-> {"AA1"},
     statuses |-> {""},
     orderItems |-> {<<Juice>>},
     items |-> {<<MoreJuice>>},
     updatedOrders |-> {<<ReturnJuice>>},
     views |-> ViewOps,
     masterFails |-> {FALSE, TRUE},
     lines |-> 2]

FaultNext ==
    \/ StartValidateLogin(1, FaultRequests)
    \/ StartLoadOrderData(1, FaultRequests)
    \/ StartPreviousOrders(1, FaultRequests)
    \/ StartSubmitOrder(1, FaultRequests)
    \/ StartApproveOrder(1, FaultRequests)
    \/ StartCancelOrder(1, FaultRequests)
    \/ StartApproveBranchOrder(1, FaultRequests)
    \/ StartUpdateWaitingOrder(1, FaultRequests)
    \/ StartUpdatePreviousOrders(1, FaultRequests)
    \/ StartView(1, FaultRequests)
    \/ LoginRead(1)
    \/ LoginF2(1)
    \/ LoginFail(1)
    \/ CatalogRead(1)
    \/ SerialRead(1)
    \/ SerialReadFail(1)
    \/ SerialWrite(1)
    \/ ReadWaiting(1)
    \/ AppendScan(1)
    \/ AppendWrite(1)
    \/ ClearWaiting(1)
    \/ EditRead(1)
    \/ EditWrite(1)
    \/ PrevRead(1)
    \/ PrevWrite(1)
    \/ ViewNow(1)
    \/ ViewRead(1)
    \/ ViewReadFail(1)
    \/ Fail(1)
    \/ Return(1)

FaultSpec == Init /\ [][FaultNext]_vars

\* the six writing handlers called with fields left out and for orders,
\* branches and products the sheets do not hold
InputRequests ==
    [usernames |-> {"amr", "sara", ""},
     branches |-> {"Maadi", ""},
     serials |-> {"AA1", ""},
     statuses |-> {"", "approved"},
     orderItems |-> {<<Juice>>, <<>>},
     items |-> {<<MoreJuice>>, <<LessWater>>, <<>>},
     updatedOrders |-> {<<ReturnJuice>>, <<ReturnRow>>, <<>>},
     masterFails |-> {FALSE},
     lines |-> 2]

InputNext ==
    \/ Tick
    \/ StartSubmitOrder(1, InputRequests)
    \/ StartApproveOrder(1, InputRequests)
    \/ StartCancelOrder(1, InputRequests)
    \/ StartApproveBranchOrder(1, InputRequests)
    \/ StartUpdateWaitingOrder(1, InputRequests)
    \/ StartUpdatePreviousOrders(1, InputRequests)
    \/ SerialRead(1)
    \/ SerialWrite(1)
    \/ ReadWaiting(1)
    \/ AppendScan(1)
    \/ AppendWrite(1)
    \/ ClearWaiting(1)
    \/ EditRead(1)
    \/ EditWrite(1)
    \/ PrevRead(1)
    \/ PrevWrite(1)
    \/ Return(1)

InputSpec == Init /\ [][InputNext]_vars

\* submissions of one or two lines in flight together, to a sheet that
\* holds a hand-typed row
AppendRaceRequests ==
    [usernames |-> {"amr", "sara"},
     branches |-> {"Maadi"},
     orderItems |-> Lists(Juice, Water),
     masterFails |-> {FALSE},
     lines |-> MaxLines]

AppendRaceNext ==
    \E p \in Procs :
        \/ StartSubmitOrder(p, AppendRaceRequests)
        \/ SerialRead(p)
        \/ SerialWrite(p)
        \/ AppendScan(p)
        \/ AppendWrite(p)
        \/ Return(p)

AppendRaceSpec ==
    InitOn({""}, <<HeaderRow, LegacyRow>>) /\ [][AppendRaceNext]_vars

\* orders that name the same product on two lines, and the edit of that
\* product's quantity
DuplicateRequests ==
    [usernames |-> {"amr", "sara"},
     branches |-> {"Maadi"},
     serials |-> {"AA1", "AA2"},
     statuses |-> {""},
     orderItems |-> Lists(Juice, Juice),
     items |-> {<<MoreJuice>>},
     masterFails |-> {FALSE},
     lines |-> MaxLines]

DuplicateNext ==
    \/ Tick
    \/ StartSubmitOrder(1, DuplicateRequests)
    \/ StartUpdateWaitingOrder(1, DuplicateRequests)
    \/ SerialRead(1)
    \/ SerialWrite(1)
    \/ AppendScan(1)
    \/ AppendWrite(1)
    \/ EditRead(1)
    \/ EditWrite(1)
    \/ Return(1)

DuplicateSpec == Init /\ [][DuplicateNext]_vars

\* orders placed by an L2 user for two branches, which go to 'Final
\* Orders', and returns against them with and without a row index, over
\* the turn of the month
ReturnRequests ==
    [usernames |-> {"sara"},
     branches |-> {"Maadi", "Zayed"},
     orderItems |-> Lists(Juice, Water),
     updatedOrders |-> {<<ReturnJuice>>, <<ReturnRow>>, <<ReturnFar>>,
                        <<ReturnJuice, ReturnRow>>},
     masterFails |-> {FALSE},
     lines |-> MaxLines]

ReturnNext ==
    \/ Tick
    \/ StartSubmitOrder(1, ReturnRequests)
    \/ StartUpdatePreviousOrders(1, ReturnRequests)
    \/ SerialRead(1)
    \/ SerialWrite(1)
    \/ AppendScan(1)
    \/ AppendWrite(1)
    \/ PrevRead(1)
    \/ PrevWrite(1)
    \/ Return(1)

ReturnSpec == Init /\ [][ReturnNext]_vars

\* submissions with quantities above, at and below zero, with and without
\* an explicit subtotal, and the edits and returns of their lines
SignedRequests ==
    [usernames |-> {"amr", "sara"},
     branches |-> {"Maadi"},
     serials |-> {"AA1"},
     statuses |-> {""},
     orderItems |-> Lists(Juice, Water) \cup {<<NegJuice>>},
     items |-> {<<MoreJuice>>, <<LessWater>>},
     updatedOrders |-> {<<ReturnJuice>>},
     masterFails |-> {FALSE},
     lines |-> MaxLines]

SignedNext ==
    \/ StartSubmitOrder(1, SignedRequests)
    \/ StartUpdateWaitingOrder(1, SignedRequests)
    \/ StartUpdatePreviousOrders(1, SignedRequests)
    \/ SerialRead(1)
    \/ SerialWrite(1)
    \/ AppendScan(1)
    \/ AppendWrite(1)
    \/ EditRead(1)
    \/ EditWrite(1)
    \/ PrevRead(1)
    \/ PrevWrite(1)
    \/ Return(1)

SignedSpec == Init /\ [][SignedNext]_vars

\* approvals and cancellations of one order by two requests in flight
\* together, either of which may approve or cancel; request 1 submits
MoveOverlapRequests ==
    [usernames |-> {"amr", "sara"},
     branches |-> {"Maadi"},
     serials |-> {"AA1"},
     statuses |-> {""},
     orderItems |-> {<<Juice>>},
     masterFails |-> {FALSE},
     lines |-> MaxLines - 2]

MoveOverlapNext ==
    \/ StartSubmitOrder(1, MoveOverlapRequests)
    \/ SerialRead(1)
    \/ SerialWrite(1)
    \/ \E p \in Procs :
           \/ StartApproveOrder(p, MoveOverlapRequests)
           \/ StartCancelOrder(p, MoveOverlapRequests)
           \/ ReadWaiting(p)
           \/ AppendScan(p)
           \/ AppendWrite(p)
           \/ ClearWaiting(p)
           \/ Return(p)

MoveOverlapSpec == Init /\ [][MoveOverlapNext]_vars

\* an edit of an order in flight together with its approval or its
\* cancellation: request 1 submits, approves and cancels, request 2 edits
EditRaceRequests ==
    [usernames |-> {"amr", "sara"},
     branches |-> {"Maadi"},
     serials |-> {"AA1"},
     statuses |-> {""},
     orderItems |-> {<<Juice>>},
     items |-> {<<MoreJuice>>},
     masterFails |-> {FALSE},
     lines |-> MaxLines - 2]

EditRaceNext ==
    \/ StartSubmitOrder(1, EditRaceRequests)
    \/ StartApproveOrder(1, EditRaceRequests)
    \/ StartCancelOrder(1, EditRaceRequests)
    \/ StartUpdateWaitingOrder(2, EditRaceRequests)
    \/ SerialRead(1)
    \/ SerialWrite(1)
    \/ ReadWaiting(1)
    \/ AppendScan(1)
    \/ AppendWrite(1)
    \/ ClearWaiting(1)
    \/ EditRead(2)
    \/ EditWrite(2)
    \/ \E p \in Procs : Return(p)

EditRaceSpec == Init /\ [][EditRaceNext]_vars

\* submit, approve and cancel, one request at a time, on a store whose
\* 'Final Orders' or 'Cancelled Orders' tab, or neither, has no row yet
BareRequests ==
    [usernames |-> {"amr", "sara"},
     branches |-> {"Maadi"},
     serials |-> {"AA1", "AA2"},
     statuses |-> {""},
     orderItems |-> {<<Juice>>},
     masterFails |-> {FALSE},
     lines |-> MaxLines - 1]

BareNext ==
    \/ StartSubmitOrder(1, BareRequests)
    \/ StartApproveOrder(1, BareRequests)
    \/ StartCancelOrder(1, BareRequests)
    \/ SerialRead(1)
    \/ SerialWrite(1)
    \/ ReadWaiting(1)
    \/ AppendScan(1)
    \/ AppendWrite(1)
    \/ ClearWaiting(1)
    \/ Return(1)

BareInit == \E bare \in {{}, {Final}, {Cancelled}} : InitBare(bare)

BareSpec == BareInit /\ [][BareNext]_vars

\* submitOrder and approveOrder next to updateWaitingOrder, with the store
\* failing and with requests that stop at each check: no username, a
\* username no partition names, a level that may not approve, an order the
\* sheet does not hold.  Every store call a request waits for returns or
\* rejects: the steps of a request are taken with weak fairness
AnswerRequests ==
    [usernames |-> {"amr", "sara", "nobody", ""},
     branches |-> {"Maadi"},
     serials |-> {"AA1"},
     statuses |-> {""},
     orderItems |-> {<<Juice>>},
     items |-> {<<MoreJuice>>},
     masterFails |-> {FALSE, TRUE},
     lines |-> 1]

\* the store calls of request 1, each returning or rejecting
StoreCallOfMove ==
    \/ SerialRead(1)
    \/ SerialReadFail(1)
    \/ SerialWrite(1)
    \/ ReadWaiting(1)
    \/ AppendScan(1)
    \/ AppendWrite(1)
    \/ ClearWaiting(1)
    \/ Fail(1)

\* the store calls of request 2, each returning or rejecting
StoreCallOfEdit ==
    \/ EditRead(2)
    \/ EditWrite(2)
    \/ Fail(2)

AnswerNext ==
    \/ StartSubmitOrder(1, AnswerRequests)
    \/ StartApproveOrder(1, AnswerRequests)
    \/ StartUpdateWaitingOrder(2, AnswerRequests)
    \/ StoreCallOfMove
    \/ StoreCallOfEdit
    \/ \E p \in Procs : Return(p)

AnswerSpec ==
    /\ Init
    /\ [][AnswerNext]_vars
    /\ WF_vars(StoreCallOfMove)
    /\ WF_vars(StoreCallOfEdit)

\* rows typed into a sheet by hand, dated in the first month: one that has
\* a branch and no serial, one of another branch
TypedNoSerial == <<Stamp(0), "Maadi", "", "P1", "N0", "3", "6", "Drinks",
                   "2", "", "">>
TypedZayed == <<Stamp(0), "Zayed", "omar", "P1", "N0", "3", "6", "Drinks",
                "2", "", "AA9">>

\* approveBranchOrder of two branches next to the submissions of an L1 user
\* and an L2 user, over the turn of the month; every sheet starts with the
\* hand-typed rows
BranchRequests ==
    [usernames |-> {"amr", "sara"},
     branches |-> {"Maadi", "Zayed"},
     orderItems |-> {<<Juice>>},
     masterFails |-> {FALSE},
     lines |-> MaxLines - 1]

BranchNext ==
    \/ Tick
    \/ StartSubmitOrder(1, BranchRequests)
    \/ StartApproveBranchOrder(1, BranchRequests)
    \/ SerialRead(1)
    \/ SerialWrite(1)
    \/ ReadWaiting(1)
    \/ AppendScan(1)
    \/ AppendWrite(1)
    \/ ClearWaiting(1)
    \/ Return(1)

BranchSpec ==
    /\ InitOn({""}, <<HeaderRow, TypedNoSerial, TypedZayed>>)
    /\ [][BranchNext]_vars

\* rows typed into a sheet by hand, dated in the first month: one late in
\* the month under a user's name, then two early in the month without a
\* name, under the first serial and the second
TypedLate == <<LateStamp(0), "Maadi", "omar", "P1", "N0", "3", "", "Drinks",
               "2", "", "AA1">>
TypedEarly == <<Stamp(0), "Maadi", "", "P2", "N0", "3", "4", "Drinks",
                "1", "", "AA1">>
TypedNoName == <<Stamp(0), "Maadi", "", "P1", "N0", "3", "", "Drinks",
                 "1", "", "AA2">>

\* the L2 summary next to submissions of three users of one client, two of
\* level L1 and one of level L2, over the turn of the month; every sheet
\* starts with the hand-typed rows
SummaryRequests ==
    [usernames |-> {"amr", "omar", "sara"},
     branches |-> {"Maadi"},
     serials |-> {""},
     statuses |-> {""},
     orderItems |-> {<<Juice>>, <<Water>>},
     views |-> {"ordersSummaryForL2"},
     masterFails |-> {FALSE},
     lines |-> MaxLines - 1]

SummaryNext ==
    \/ Tick
    \/ StartSubmitOrder(1, SummaryRequests)
    \/ StartView(1, SummaryRequests)
    \/ SerialRead(1)
    \/ SerialWrite(1)
    \/ AppendScan(1)
    \/ AppendWrite(1)
    \/ ViewNow(1)
    \/ ViewRead(1)
    \/ Return(1)

SummarySpec ==
    /\ InitOn({""}, <<HeaderRow, LegacyRow, TypedLate, TypedEarly,
                     TypedNoName>>)
    /\ [][SummaryNext]_vars

(***************************************************************************)
(* Properties.  A request that has answered stays at "done", with its      *)
(* request, its response and the store it arrived at, until it returns.    *)
(***************************************************************************)
Answered(p, op) == pc[p] = "done" /\ req[p].op = op

Succeeded(p, op) == Answered(p, op) /\ resp[p].success

\* row i of the grid of a sheet: blank past the last row that has content
RowAt(sheet, i) == IF i <= Len(sheet) THEN sheet[i] ELSE BlankRow

\* the level and the branch the master store gives to a user
LevelOf(username) == ScanResult[username].level
BranchOf(username) == ScanResult[username].branch

\* numbers of the rows below the header that are dated in the server's
\* month of instant t and carry the serial in column K, top to bottom
RowsOfOrder(sheet, t, orderSerial) ==
    SelectSeq([i \in 1..Len(sheet) |-> i],
              LAMBDA i : /\ i > 1
                         /\ sheet[i][colA] \in Stamps
                         /\ MonthOfStamp[sheet[i][colA]] = LocalMonth(t)
                         /\ sheet[i][colK] = orderSerial)

\* request p took the rows of its order out of Waiting and put them, as they
\* were and in their order, at the end of the target sheet
MovedOrder(p, target) ==
    LET was == pre[p].sheets
        idx == RowsOfOrder(was[Waiting], loc[p].now, req[p].orderSerial)
        moved == {idx[k] : k \in 1..Len(idx)}
    IN /\ sheets[target] = was[target] \o [k \in 1..Len(idx) |->
                                               was[Waiting][idx[k]]]
       /\ \A i \in 1..Max(Len(was[Waiting]), Len(sheets[Waiting])) :
              RowAt(sheets[Waiting], i) =
                  IF i \in moved THEN BlankRow ELSE was[Waiting][i]

\* C1: when approveOrder succeeds (no other request in flight), exactly the
\* current-month rows of Waiting below the header whose column K is the
\* serial are now at the end of 'Final Orders', in their order and with
\* their 11 cells, and each of those Waiting rows is 11 empty cells; the
\* other Waiting rows are as they were
C1_ApproveMovesOrder ==
    \A p \in Procs : Succeeded(p, "approveOrder") => MovedOrder(p, Final)

\* an approval by an L2 user that moved two rows and left another row of
\* Waiting where it was
C1_Witness ==
    \E p \in Procs :
        /\ Succeeded(p, "approveOrder")
        /\ LevelOf(req[p].username) = "L2"
        /\ Len(sheets[Final]) >= Len(pre[p].sheets[Final]) + 2
        /\ \E i \in 2..Len(sheets[Waiting]) : ~IsBlankRow(sheets[Waiting][i])

\* C2: when cancelOrder succeeds (no other request in flight), exactly the
\* current-month rows of Waiting below the header whose column K is the
\* serial are now at the end of 'Cancelled Orders', in their order and with
\* their 11 cells, those Waiting rows are blank, and 'Final Orders' is as it
\* was
C2_CancelMovesOrder ==
    \A p \in Procs :
        Succeeded(p, "cancelOrder") =>
            /\ MovedOrder(p, Cancelled)
            /\ sheets[Final] = pre[p].sheets[Final]

\* a cancellation that moved two rows while 'Final Orders' had an order
C2_Witness ==
    \E p \in Procs :
        /\ Succeeded(p, "cancelOrder")
        /\ Len(sheets[Cancelled]) >= Len(pre[p].sheets[Cancelled]) + 2
        /\ Len(sheets[Final]) > 1

\* C3: an approveOrder or cancelOrder by an L2 user that comes right after
\* a successful approveOrder or cancelOrder of the same serial answers 400
\* and writes nothing to the store
C3_SecondMoveRejected ==
    \A p \in Procs :
        (/\ pc[p] = "done"
         /\ req[p].op \in {"approveOrder", "cancelOrder"}
         /\ LevelOf(req[p].username) = "L2"
         /\ last.op = "move"
         /\ last.orderSerial = req[p].orderSerial)
        => /\ resp[p].status = 400
           /\ calls[p].writes = 0
           /\ sheets = pre[p].sheets

\* a cancellation turned down after the approval of the same order, other
\* rows still waiting
C3_Witness ==
    \E p \in Procs :
        /\ Answered(p, "cancelOrder")
        /\ resp[p].status = 400
        /\ last.op = "move"
        /\ last.orderSerial = req[p].orderSerial
        /\ \E i \in 2..Len(sheets[Final]) :
               sheets[Final][i][colK] = req[p].orderSerial
        /\ Len(sheets[Waiting]) > 1

\* the cells of a row that say which line it is: all but the quantity (I)
\* and the subtotal (G), which a return rewrites
SameLine(a, b) == \A c \in (1..NumCols) \ {colG, colI} : a[c] = b[c]

\* C4: with requests one at a time (submit, approve, approveBranchOrder,
\* cancel, edit, return), no step blanks, removes or moves a row of 'Final
\* Orders' or 'Cancelled Orders': a row that has content keeps its place
\* and its line in the next state
C4_FinalAndCancelledKeepRows ==
    [][\A name \in {Final, Cancelled} : \A i \in 1..Len(sheets[name]) :
           ~IsBlankRow(sheets[name][i]) =>
               /\ i <= Len(sheets'[name])
               /\ SameLine(sheets[name][i], sheets'[name][i])]_vars

\* two approved lines, one of them rewritten by a return, and a cancelled
\* line
C4_Witness ==
    /\ Len(sheets[Final]) > 2
    /\ \E i \in 2..Len(sheets[Final]) : sheets[Final][i][colI] \in {"0", "1"}
    /\ Len(sheets[Cancelled]) > 1
    /\ \A p \in Procs : pc[p] = "idle"

\* the rows of the store that hold the line of a name
Places(name) ==
    {pl \in SheetNames \X (1..MaxLines + 2) :
        /\ pl[2] <= Len(sheets[pl[1]])
        /\ sheets[pl[1]][pl[2]][colE] = name}

SheetsHolding(name) == {pl[1] : pl \in Places(name)}

\* C5 as stated: in every reachable state, the states between the store
\* calls of a request included, no order line is in two sheets
C5_OneSheetInEveryState ==
    \A k \in 1..(nextLine - 1) : Cardinality(SheetsHolding(LineName(k))) <= 1

\* C5, amended: whenever no request is in progress (requests one at a time,
\* every store call succeeding), each order line submitted so far is in
\* exactly one row of exactly one of the three sheets
C5_OneSheetAtRest ==
    (\A p \in Procs : pc[p] = "idle") =>
        \A k \in 1..(nextLine - 1) : Cardinality(Places(LineName(k))) = 1

\* at rest with a line waiting, a line approved and a line cancelled
C5_Witness ==
    /\ \A p \in Procs : pc[p] = "idle"
    /\ \E i \in 2..Len(sheets[Waiting]) : ~IsBlankRow(sheets[Waiting][i])
    /\ Len(sheets[Final]) > 1
    /\ Len(sheets[Cancelled]) > 1

\* C6: when submitOrder succeeds (no other request in flight), one row per
\* item, in the items' order, is at the end of Waiting if the user's level
\* is not L2 and of 'Final Orders' if it is, the other two sheets are as
\* they were, and column K of every new row is the serial of the response,
\* which no row had before
C6_SubmitAppendsToOneSheet ==
    \A p \in Procs :
        Succeeded(p, "submitOrder") =>
            LET target == IF LevelOf(req[p].username) = "L2" THEN Final
                          ELSE Waiting
                was == pre[p].sheets
                n == Len(req[p].items)
                m == Len(was[target])
            IN /\ Len(sheets[target]) = m + n
               /\ SubSeq(sheets[target], 1, m) = was[target]
               /\ \A k \in 1..n :
                      /\ sheets[target][m + k][colK] = resp[p].orderSerial
                      /\ sheets[target][m + k][colE] =
                             req[p].items[k].productName
                      /\ sheets[target][m + k][colD] =
                             req[p].items[k].productCode
               /\ \A other \in SheetNames \ {target} :
                      sheets[other] = was[other]
               /\ resp[p].orderSerial # ""
               /\ \A name \in SheetNames : \A i \in 1..Len(was[name]) :
                      was[name][i][colK] # resp[p].orderSerial

\* a submission of two items by an L2 user, after an order sent for approval
C6_Witness ==
    \E p \in Procs :
        /\ Succeeded(p, "submitOrder")
        /\ LevelOf(req[p].username) = "L2"
        /\ Len(req[p].items) = 2
        /\ Len(sheets[Waiting]) > 1
        /\ sheets[Final][Len(sheets[Final])][colK] = resp[p].orderSerial

StoreAsItWas(p) ==
    /\ sheets = pre[p].sheets
    /\ counterCell = pre[p].counterCell

\* the submission of request p was turned down before any store call
Forbidden(p) ==
    /\ resp[p].status = 403
    /\ calls[p] = NoCalls
    /\ StoreAsItWas(p)

\* C7 as stated: a submitOrder of a non-L2 user for a branch other than the
\* user's configured one, whatever that is, blank included, answers 403,
\* writes no row and leaves the counter as it was
C7_OtherBranchForbidden ==
    \A p \in Procs :
        (/\ Answered(p, "submitOrder")
         /\ LevelOf(req[p].username) # "L2"
         /\ req[p].branchName # BranchOf(req[p].username))
        => Forbidden(p)

\* C7, amended: a submitOrder of a non-L2 user whose configured branch is
\* not blank, for a branch other than that one, answers 403, writes no row
\* and leaves the counter as it was; a submitOrder of an L2 user is never
\* answered 403, whatever the branch
C7_OtherBranchForbiddenIfConfigured ==
    \A p \in Procs :
        Answered(p, "submitOrder") =>
            /\ (/\ LevelOf(req[p].username) # "L2"
                /\ BranchOf(req[p].username) # ""
                /\ req[p].branchName # BranchOf(req[p].username))
               => Forbidden(p)
            /\ LevelOf(req[p].username) = "L2" => resp[p].status # 403

\* an L1 user of branch Maadi turned down for another branch
C7_Witness ==
    \E p \in Procs :
        /\ Answered(p, "submitOrder")
        /\ LevelOf(req[p].username) = "L1"
        /\ BranchOf(req[p].username) = "Maadi"
        /\ req[p].branchName = "Zayed"
        /\ resp[p].status = 403

\* the operations only an L2 user may call
L2Ops == ViewOps \cup {"approveOrder", "cancelOrder", "approveBranchOrder",
                       "updateWaitingOrder"}

\* C8: a request for one of the 11 L2-only operations by a user whose level
\* resolves to something other than 'L2' is answered 403 without a single
\* read or write of the order store: it is never found at a store call
C8_NonL2NeverReachesStore ==
    \A p \in Procs :
        (/\ req[p].op \in L2Ops
         /\ ScanResult[req[p].username].kind = "ok"
         /\ LevelOf(req[p].username) # "L2")
        => /\ pc[p] = "done"
           /\ Forbidden(p)

\* a user without a level (it resolves to L1) asking for an order's details
\* when the store holds an order
C8_Witness ==
    \E p \in Procs :
        /\ Answered(p, "orderDetailsForL2")
        /\ req[p].username = "omar"
        /\ resp[p].status = 403
        /\ Len(sheets[Waiting]) > 1

\* the serial numbered n
SerialOf(n) == "AA" \o NumStr[n]

SerialValue(serial) == CHOOSE n \in NumRange : serial = SerialOf(n)

\* the number C9 as stated finds in the counter cell: the prefix is
\* optional
SuffixOptionalPrefix(cell) ==
    CASE cell \in {"", "AAx"} -> 0
      [] cell = "7" -> 7
      [] cell = "aa1" -> 1
      [] cell = "AA2x" -> 2
      [] OTHER -> SerialValue(cell)

\* the number of the amended C9: without the prefix there is none
SuffixAfterPrefix(cell) ==
    CASE cell \in {"", "AAx", "7"} -> 0
      [] cell = "aa1" -> 1
      [] cell = "AA2x" -> 2
      [] OTHER -> SerialValue(cell)

\* the serial a submission answered with came from number n: it is
\* 'AA'(n+1), the cell holds it, and it is greater than the serial of the
\* submission just before when the cell was read without failure
IssuedFrom(p, n) ==
    /\ resp[p].orderSerial = SerialOf(n + 1)
    /\ counterCell = SerialOf(n + 1)
    /\ (last.op = "submit" /\ ~loc[p].readFailed)
       => SerialValue(resp[p].orderSerial) > SerialValue(last.orderSerial)

\* C9 as stated: the serial is 'AA'(n+1) for n the number in the cell
\* after an optional 'AA', so a bare '7' gives 'AA8'
C9_SerialFromOptionalPrefix ==
    \A p \in Procs :
        Succeeded(p, "submitOrder") =>
            IssuedFrom(p, IF loc[p].readFailed THEN 0
                          ELSE SuffixOptionalPrefix(pre[p].counterCell))

\* C9, amended: the serial is 'AA'(n+1) for n the number parseInt finds
\* after a required 'AA' (any case), 0 when the cell is blank, lacks the
\* prefix (a bare '7') or has no number after it, or when the read failed;
\* it is written to the cell and returned, and calls that do not overlap
\* and see no read failure return strictly increasing serials
C9_SerialFromRequiredPrefix ==
    \A p \in Procs :
        Succeeded(p, "submitOrder") =>
            IssuedFrom(p, IF loc[p].readFailed THEN 0
                          ELSE SuffixAfterPrefix(pre[p].counterCell))

\* a submission that read a bare '7' from the cell and was given AA1
C9_Witness ==
    \E p \in Procs :
        /\ Succeeded(p, "submitOrder")
        /\ ~loc[p].readFailed
        /\ pre[p].counterCell = "7"
        /\ resp[p].orderSerial = "AA1"
        /\ counterCell = "AA1"

\* C10: when two submitOrder requests in flight together have read the same
\* counter value and both have answered, both answered success with the
\* same serial and the counter is one past the value they read
C10_SameReadSameSerial ==
    \A p, q \in Procs :
        (/\ p # q
         /\ Succeeded(p, "submitOrder")
         /\ Succeeded(q, "submitOrder")
         /\ loc[p].currentSerial = loc[q].currentSerial)
        => /\ resp[p].orderSerial = resp[q].orderSerial
           /\ counterCell = resp[p].orderSerial
           /\ SerialValue(counterCell) =
                  SuffixAfterPrefix(loc[p].currentSerial) + 1

\* both have answered with serial AA1, to two users, and the store holds
\* the line of each, both tagged AA1
C10_Witness ==
    /\ \A p \in Procs :
           /\ Succeeded(p, "submitOrder")
           /\ resp[p].orderSerial = "AA1"
           /\ loc[p].currentSerial = ""
           /\ \E pl \in Places(req[p].items[1].productName) :
                  sheets[pl[1]][pl[2]][colK] = "AA1"
    /\ req[1].username # req[2].username
    /\ req[1].items[1].productName # req[2].items[1].productName
    /\ counterCell = "AA1"

\* C11: a failed read of the counter cell is not passed on: the call goes on
\* to its write with "no serial so far", and a submission that succeeded
\* after such a failure was given 'AA1', with 'AA1' left in the counter cell
\* whatever the cell held before
C11_ReadFailureRestartsAtOne ==
    /\ [][\A p \in Procs :
             (pc[p] = "serialRead" /\ faults' # faults) =>
                 /\ pc'[p] = "serialWrite"
                 /\ loc'[p].currentSerial = ""
                 /\ counterCell' = counterCell]_vars
    /\ [](\A p \in Procs :
             /\ (pc[p] \in {"appendScan", "appendWrite"}
                    /\ loc[p].readFailed)
                   => /\ loc[p].orderSerial = "AA1"
                      /\ counterCell = "AA1"
             /\ (Succeeded(p, "submitOrder") /\ loc[p].readFailed)
                   => /\ resp[p] = [status |-> 200, success |-> TRUE,
                                    orderSerial |-> "AA1"]
                      /\ counterCell = "AA1")

\* a line carried AA1 and the cell had gone on to AA2; the read failed and
\* the new order was given AA1 as well
C11_Witness ==
    \E p \in Procs :
        /\ Succeeded(p, "submitOrder")
        /\ loc[p].readFailed
        /\ resp[p].orderSerial = "AA1"
        /\ pre[p].counterCell = "AA2"
        /\ counterCell = "AA1"
        /\ \E i \in 2..Len(pre[p].sheets[Waiting]) :
               pre[p].sheets[Waiting][i][colK] = "AA1"
        /\ \E pl \in Places(req[p].items[1].productName) :
               sheets[pl[1]][pl[2]][colK] = "AA1"

\* the names of the lines that a sheet holds under a serial
LinesUnder(name, orderSerial) ==
    {sheets[name][i][colE] : i \in {j \in 2..Len(sheets[name]) :
                                        sheets[name][j][colK] = orderSerial}}

\* C12: when an approveOrder and a cancelOrder of the same serial, in flight
\* together, have both answered success, the lines of the order are in
\* 'Final Orders' and in 'Cancelled Orders', the same in both, and Waiting
\* holds none of them
C12_ApprovedAndCancelled ==
    \A p, q \in Procs :
        (/\ Succeeded(p, "approveOrder")
         /\ Succeeded(q, "cancelOrder")
         /\ req[p].orderSerial = req[q].orderSerial)
        => /\ LinesUnder(Final, req[p].orderSerial) # {}
           /\ LinesUnder(Cancelled, req[p].orderSerial) =
                  LinesUnder(Final, req[p].orderSerial)
           /\ LinesUnder(Waiting, req[p].orderSerial) = {}

\* both have answered success for an order of two lines, which are now in
\* both sheets, and every row of Waiting below the header is blank
C12_Witness ==
    \E p, q \in Procs :
        /\ Succeeded(p, "approveOrder")
        /\ Succeeded(q, "cancelOrder")
        /\ req[p].orderSerial = req[q].orderSerial
        /\ Cardinality(LinesUnder(Final, req[p].orderSerial)) = 2
        /\ \A name \in LinesUnder(Final, req[p].orderSerial) :
               SheetsHolding(name) = {Final, Cancelled}
        /\ \A i \in 2..Len(sheets[Waiting]) : IsBlankRow(sheets[Waiting][i])

\* C13: the write of an append lands on the rows found by its own scan,
\* whatever another request has written there since: after the write rows
\* startRow.. hold the appended values, every other row of the sheet is as
\* it was (rows written there meanwhile are gone), and a submission
\* answers success all the same
C13_AppendOverwrites ==
    [][\A p \in Procs :
           (pc[p] = "appendWrite" /\ pc'[p] # "appendWrite") =>
               LET target == loc[p].target
                   first == loc[p].startRow
                   n == Len(loc[p].appendValues)
               IN /\ \A i \in 1..(Len(sheets[target]) + n + 1) :
                         RowAt(sheets'[target], i) =
                             IF i >= first /\ i < first + n
                             THEN loc[p].appendValues[i - first + 1]
                             ELSE RowAt(sheets[target], i)
                  /\ req[p].op = "submitOrder" =>
                         (pc'[p] = "done" /\ resp'[p].success)]_vars

\* two submissions have both answered success and the line of one of them
\* is in no sheet: the other wrote over it
C13_Witness ==
    \E p, q \in Procs :
        /\ p # q
        /\ Succeeded(p, "submitOrder")
        /\ Succeeded(q, "submitOrder")
        /\ Places(req[p].items[1].productName) = {}
        /\ Places(req[q].items[1].productName) # {}

(***************************************************************************)
(* Month filter of the scans                                               *)
(***************************************************************************)
\* the row's date cell is a date of the calendar month of instant t
DatedInMonthOf(cells, t) ==
    /\ cells[colA] \in Stamps
    /\ MonthOfStamp[cells[colA]] = LocalMonth(t)

MoveOps == {"approveOrder", "approveBranchOrder", "cancelOrder"}

\* C14: every row that enters the result of a read-only handler
\* (approvalsSummary, approvalDetails, pendingOrders, ordersSummaryForL2,
\* orderDetailsForL2, previousOrders, the two exports), and every row that
\* approveOrder, approveBranchOrder or cancelOrder selects for moving, has
\* a date cell that is a date of the calendar month of the handler's `now`;
\* a row of another month, or with an empty or unparseable date cell, is
\* left out even when its serial or branch matches.
C14_OnlyCurrentMonthRows ==
    \A p \in Procs :
        /\ \A k \in 1..Len(loc[p].rows) :
               /\ DatedInMonthOf(loc[p].rows[k].cells, loc[p].now)
               /\ loc[p].rows[k].index > 1
        /\ req[p].op \in MoveOps =>
               /\ \A k \in 1..Len(loc[p].appendValues) :
                      DatedInMonthOf(loc[p].appendValues[k], loc[p].now)
               /\ \A k \in 1..Len(loc[p].rowsToClear) :
                      loc[p].rowsToClear[k] > 1

\* the L2 summary has answered with a row of this month while the sheets
\* held a row of another month and a row without a date, both with a branch
\* and a serial, that it left out
C14_Witness ==
    \E p \in Procs :
        /\ Answered(p, "ordersSummaryForL2")
        /\ resp[p].status = 200
        /\ loc[p].rows # <<>>
        /\ \E n \in SheetNames : \E i \in 2..Len(sheets[n]) :
               /\ sheets[n][i][colA] \in Stamps
               /\ MonthOfStamp[sheets[n][i][colA]] # LocalMonth(loc[p].now)
               /\ sheets[n][i][colB] # "" /\ sheets[n][i][colK] # ""
               /\ \A k \in 1..Len(loc[p].rows) :
                      ~(loc[p].rows[k].sheet = n /\ loc[p].rows[k].index = i)
        /\ \E n \in SheetNames : \E i \in 2..Len(sheets[n]) :
               /\ sheets[n][i] = LegacyRow
               /\ \A k \in 1..Len(loc[p].rows) :
                      ~(loc[p].rows[k].sheet = n /\ loc[p].rows[k].index = i)

(***************************************************************************)
(* Rows a write may change                                                 *)
(***************************************************************************)
\* the rows of sheet n, below the header, that held a line and are changed
\* by the step
ChangedRows(n) ==
    {i \in 2..Len(sheets[n]) :
        ~IsBlankRow(sheets[n][i]) /\ RowAt(sheets'[n], i) # sheets[n][i]}

\* C15: no operation changes a row dated outside the current month; a
\* return (updatePreviousOrders), with or without an explicit rowIndex,
\* changes only rows of 'Final Orders' that are dated in the current month
\* and belong to the requested branch.
C15_WritesStayInMonthAndBranch ==
    [][\A p \in Procs : \A n \in SheetNames : \A i \in ChangedRows(n) :
          pc[p] \in WritePcs =>
              /\ DatedInMonthOf(sheets[n][i], loc[p].now)
              /\ pc[p] = "prevWrite" =>
                     /\ n = Final
                     /\ sheets[n][i][colB] = req[p].branchName]_vars

(***************************************************************************)
(* Edit of a waiting order                                                 *)
(***************************************************************************)
\* row i of 'Waiting for Approval' is a line of the edited order, dated in
\* the month of the edit, that carries the product code of item o
EditedBy(p, i, o) ==
    /\ DatedInMonthOf(sheets[Waiting][i], loc[p].now)
    /\ sheets[Waiting][i][colK] = req[p].orderSerial
    /\ sheets[Waiting][i][colD] = o.productCode

\* row i after the edit by item o: quantity max(0, requested) in cell I,
\* stored unit price times that quantity in cell G, the other cells kept
EditedRow(i, o) ==
    LET old == sheets[Waiting][i]
        qty == IF o.quantity > 0 THEN o.quantity ELSE 0
    IN [c \in 1..NumCols |->
           IF c = colI THEN NumStr[qty]
           ELSE IF c = colG THEN NumStr[NumOfText[old[colF]] * qty]
           ELSE old[c]]

\* C16: the write of a successful updateWaitingOrder changes nothing but
\* cells I and G of rows of 'Waiting for Approval' that are dated in the
\* current month, carry the serial of the request and the product code of
\* one of its items; the new quantity is max(0, requested quantity), the
\* new subtotal the row's stored unit price times the new quantity, and
\* the last such row of every item is written.
C16_EditWritesQtyAndSubtotal ==
    [][\A p \in Procs :
          (pc[p] = "editWrite" /\ pc'[p] = "done") =>
              /\ resp'[p].success /\ resp'[p].status = 200
              /\ sheets'[Final] = sheets[Final]
              /\ sheets'[Cancelled] = sheets[Cancelled]
              /\ counterCell' = counterCell
              /\ Len(sheets'[Waiting]) = Len(sheets[Waiting])
              /\ sheets'[Waiting][1] = sheets[Waiting][1]
              /\ \A i \in 2..Len(sheets[Waiting]) :
                     \/ sheets'[Waiting][i] = sheets[Waiting][i]
                     \/ \E k \in 1..Len(req[p].items) :
                            /\ EditedBy(p, i, req[p].items[k])
                            /\ sheets'[Waiting][i]
                                   = EditedRow(i, req[p].items[k])
              /\ \E k \in 1..Len(req[p].items) :
                     \E i \in 2..Len(sheets[Waiting]) :
                         /\ EditedBy(p, i, req[p].items[k])
                         /\ sheets'[Waiting][i]
                                = EditedRow(i, req[p].items[k])]_vars

\* an edit has succeeded that raised the quantity of one line from 2 to 4
\* and was asked to lower another to -1: that line holds quantity 0 and
\* subtotal 0, where it held subtotal 5 before
C16_Witness ==
    \E p \in Procs :
        /\ Succeeded(p, "updateWaitingOrder")
        /\ req[p].items = <<MoreJuice, LessWater>>
        /\ \E i, j \in 2..Len(sheets[Waiting]) :
               /\ pre[p].sheets[Waiting][i][colI] = "2"
               /\ sheets[Waiting][i][colI] = "4"
               /\ sheets[Waiting][i][colG] = "12"
               /\ pre[p].sheets[Waiting][j][colG] = "5"
               /\ sheets[Waiting][j][colI] = "0"
               /\ sheets[Waiting][j][colG] = "0"
               /\ sheets[Waiting][j][colD] = "P2"

(***************************************************************************)
(* Lines of quantity 0                                                     *)
(***************************************************************************)
\* an order line with quantity 0 and a subtotal that is not 0
ZeroQtyWithSubtotal(cells) ==
    ~IsBlankRow(cells) /\ cells[colI] = "0" /\ cells[colG] # "0"

\* C17 as stated: in every state, every order line of the three sheets
\* with quantity 0 has subtotal 0, whatever request wrote it.
C17_ZeroQuantityZeroSubtotal ==
    \A n \in SheetNames : \A i \in 2..Len(sheets[n]) :
        ~ZeroQtyWithSubtotal(sheets[n][i])

\* C17, amended: a line with quantity 0 and a subtotal other than 0 is
\* only ever written by a submission whose item came with an explicit
\* subtotal; a submission without one, an edit and a return write subtotal
\* 0 with quantity 0.
C17_ZeroQuantityZeroSubtotalUnlessGiven ==
    [][\A n \in SheetNames : \A i \in 2..Len(sheets'[n]) :
          (ZeroQtyWithSubtotal(sheets'[n][i])
              /\ RowAt(sheets[n], i) # sheets'[n][i]) =>
              \E p \in Procs :
                  /\ pc[p] = "appendWrite" /\ req[p].op = "submitOrder"
                  /\ \E k \in 1..Len(req[p].items) :
                         /\ req[p].items[k].subtotal # Absent
                         /\ req[p].items[k].quantity = 0
                         /\ sheets'[n][i] = loc[p].appendValues[k]]_vars

\* a return has set the quantity of a line from 2 to 0 and its subtotal
\* from 6 to 0, while another line, submitted with quantity 0 and subtotal
\* 5, still holds subtotal 5, and a third, submitted with quantity 0 and no
\* subtotal, holds subtotal 0
C17_Witness ==
    \E p \in Procs :
        /\ Succeeded(p, "updatePreviousOrders")
        /\ \E i \in 2..Len(sheets[Final]) :
               /\ pre[p].sheets[Final][i][colI] = "2"
               /\ pre[p].sheets[Final][i][colG] = "6"
               /\ sheets[Final][i][colI] = "0"
               /\ sheets[Final][i][colG] = "0"
        /\ \E n \in SheetNames : \E j \in 2..Len(sheets[n]) :
               /\ sheets[n][j][colI] = "0"
               /\ sheets[n][j][colG] = "5"
        /\ \E n \in SheetNames : \E j \in 2..Len(sheets[n]) :
               /\ sheets[n][j][colD] = "P1"
               /\ sheets[n][j][colC] = "amr"
               /\ sheets[n][j][colI] = "0"
               /\ sheets[n][j][colG] = "0"

(***************************************************************************)
(* Login                                                                   *)
(***************************************************************************)
Reserved == {"Config", "Readme"}

\* the client partitions of the master store, by position
Partitions ==
    {t \in 1..Len(MasterTabs) : MasterTabs[t].title \notin Reserved}

\* the user rows of partition t with this username and password
RowsHolding(t, username, password) ==
    {i \in 1..Len(MasterTabs[t].rows) :
        /\ MasterTabs[t].rows[i][1] = username
        /\ MasterTabs[t].rows[i][2] = password}

\* the partitions with the username, whatever the password
PartitionsNaming(username) ==
    {t \in Partitions :
        \E i \in 1..Len(MasterTabs[t].rows) :
            MasterTabs[t].rows[i][1] = username}

PartitionsHolding(username, password) ==
    {t \in Partitions : RowsHolding(t, username, password) # {}}

\* the titles of the client partitions up to partition t, in order
TitlesUpTo(t) ==
    LET upTo == SelectSeq(SubSeq(MasterTabs, 1, t),
                          LAMBDA m : m.title \notin Reserved)
    IN [k \in 1..Len(upTo) |-> upTo[k].title]

\* a level cell as the login reports it: upper case, L1 when blank
LevelOfCell(text) ==
    IF text \in {"l2", "L2"} THEN "L2"
    ELSE IF text \in {"", "l1", "L1"} THEN "L1" ELSE text

\* the login of request p went through without a failed read
LoggedIn(p) == Answered(p, "validateLogin") /\ ~loc[p].readFailed

\* C18: for a username and password held by a user row of exactly one
\* client partition, the login reads the client partitions in order up to
\* that one and no further, and returns that row's level and branch and
\* that partition's budgetSheetId (the call fails when the partition has
\* none); 'Config' and 'Readme' are never read.
C18_LoginReturnsThePartition ==
    \A p \in Procs :
        /\ \A k \in 1..Len(loc[p].tabsRead) :
               loc[p].tabsRead[k] \notin Reserved
        /\ LoggedIn(p) =>
               LET holders == PartitionsHolding(req[p].username,
                                                loc[p].password)
               IN Cardinality(holders) = 1 =>
                      LET t == CHOOSE h \in holders : TRUE
                          i == CHOOSE j \in RowsHolding(t, req[p].username,
                                                        loc[p].password) :
                                   TRUE
                          row == MasterTabs[t].rows[i]
                      IN /\ loc[p].tabsRead = TitlesUpTo(t)
                         /\ IF MasterTabs[t].f2 = ""
                            THEN resp[p].status = 500
                            ELSE /\ resp[p].success
                                 /\ loc[p].match.kind = "ok"
                                 /\ loc[p].match.tab = MasterTabs[t].title
                                 /\ loc[p].match.level = LevelOfCell(row[5])
                                 /\ loc[p].match.branch = row[3]
                                 /\ loc[p].match.budgetSheetId
                                        = MasterTabs[t].f2

\* a login has succeeded with a username and password that 'Config' holds
\* too: it returned the client partition's level and budgetSheetId and read
\* that partition only
C18_Witness ==
    \E p \in Procs :
        /\ LoggedIn(p) /\ resp[p].success
        /\ req[p].username = "sara" /\ loc[p].password = "pw"
        /\ loc[p].match.level = "L2"
        /\ loc[p].match.branch = "Maadi"
        /\ loc[p].match.budgetSheetId = "storeA"
        /\ loc[p].tabsRead = <<"ClientA">>
        /\ \E t \in 1..Len(MasterTabs) :
               /\ MasterTabs[t].title = "Config"
               /\ RowsHolding(t, "sara", "pw") # {}

\* C19 as stated: when the username exists in two client partitions, a
\* login with it returns the first of them, whatever the password.
C19_FirstPartitionOfUsername ==
    \A p \in Procs :
        (LoggedIn(p) /\ resp[p].success
            /\ Cardinality(PartitionsNaming(req[p].username)) >= 2) =>
            \A t \in PartitionsNaming(req[p].username) :
                MasterTabs[t].title = loc[p].match.tab =>
                    \A h \in PartitionsNaming(req[p].username) : t <= h

\* C19, amended: when the username exists with the same password in two
\* client partitions, a login with them returns the first of the two; a
\* later partition is returned only for a password that no earlier
\* partition holds with that username.
C19_FirstPartitionOfUsernameAndPassword ==
    \A p \in Procs :
        (LoggedIn(p) /\ resp[p].success) =>
            \E t \in PartitionsHolding(req[p].username, loc[p].password) :
                /\ MasterTabs[t].title = loc[p].match.tab
                /\ \A h \in PartitionsHolding(req[p].username,
                                               loc[p].password) : t <= h

\* a login has succeeded with a username and password that two client
\* partitions hold: it returned the first and never read the second
C19_Witness ==
    \E p \in Procs :
        /\ LoggedIn(p) /\ resp[p].success
        /\ Cardinality(PartitionsHolding(req[p].username,
                                         loc[p].password)) = 2
        /\ loc[p].match.tab = "ClientA"
        /\ loc[p].match.branch = "Maadi"
        /\ loc[p].tabsRead = <<"ClientA">>

(***************************************************************************)
(* Failure responses                                                       *)
(***************************************************************************)
\* C20: every response with success false carries status 400, 403 or 500;
\* a login with a username and password no client partition holds, and a
\* request of any endpoint (loadOrderDataWithSpending, previousOrders and
\* updatePreviousOrders among them) with a username no client partition
\* holds, is answered with status 400.
C20_FailuresCarry400403500 ==
    \A p \in Procs :
        (pc[p] = "done" /\ ~resp[p].success) =>
            /\ resp[p].status \in {400, 403, 500}
            /\ (req[p].op = "validateLogin"
                    /\ PartitionsHolding(req[p].username,
                                         loc[p].password) = {})
                   => resp[p].status = 400
            /\ (req[p].op # "validateLogin"
                    /\ PartitionsNaming(req[p].username) = {})
                   => resp[p].status = 400

(***************************************************************************)
(* Store failures                                                          *)
(***************************************************************************)
\* the step is a store call of request p that fails
FailedCall(p) == faults' # faults /\ pc'[p] # pc[p]

\* the step answers request p with status 500 and leaves the store alone
Answers500(p) ==
    /\ pc'[p] = "done"
    /\ resp'[p].status = 500 /\ ~resp'[p].success
    /\ sheets' = sheets /\ counterCell' = counterCell

\* request p is at the read of 'Cancelled Orders' that ends a summary or
\* an export
AtCancelledRead(p) ==
    /\ pc[p] = "viewRead"
    /\ req[p].op \in {"ordersSummaryForL2", "exportOrdersExcel",
                       "exportOrderExcel"}
    /\ loc[p].target = Cancelled

AppendedByMove(p, grid) ==
    \A k \in 1..Len(loc[p].appendValues) :
        RowAt(grid[loc[p].target], loc[p].startRow + k - 1)
            = loc[p].appendValues[k]

\* the rows request p selected are in Waiting, where it found them
StillWaiting(p, grid) ==
    \A k \in 1..Len(loc[p].rowsToClear) :
        RowAt(grid[Waiting], loc[p].rowsToClear[k]) = loc[p].appendValues[k]

\* the rows request p selected are blank in Waiting
ClearedByMove(p, grid) ==
    \A k \in 1..Len(loc[p].rowsToClear) :
        IsBlankRow(RowAt(grid[Waiting], loc[p].rowsToClear[k]))

\* C22: approveOrder, approveBranchOrder and cancelOrder (one request at a
\* time) answer success only in the step that completes the clear of the
\* Waiting rows, the append to the target sheet having completed before;
\* when the append has succeeded and the clear fails, the answer is 500,
\* nothing is undone, and the lines are in both Waiting and the target
\* sheet.
C22_MoveAnswersAfterBothWrites ==
    [][\A p \in Procs :
          /\ (pc[p] # "done" /\ pc'[p] = "done" /\ resp'[p].success
                  /\ req'[p].op \in MoveOps) =>
                 /\ pc[p] = "clearWaiting" /\ faults' = faults
                 /\ loc[p].rowsToClear # <<>>
                 /\ AppendedByMove(p, sheets) /\ AppendedByMove(p, sheets')
                 /\ StillWaiting(p, sheets) /\ ClearedByMove(p, sheets')
          /\ (pc[p] = "clearWaiting" /\ FailedCall(p)) =>
                 /\ pc'[p] = "done"
                 /\ resp'[p].status = 500 /\ ~resp'[p].success
                 /\ sheets' = sheets
                 /\ loc[p].rowsToClear # <<>>
                 /\ AppendedByMove(p, sheets') /\ StillWaiting(p, sheets')
          /\ (pc[p] = "appendWrite" /\ req[p].op \in MoveOps) =>
                 pc'[p] \in {"clearWaiting", "done"}
                     /\ (pc'[p] = "done" => resp'[p].status = 500)]_vars

\* a cancellation has answered 500 after its two writes, the second of
\* which failed: the line is in Waiting and in 'Cancelled Orders'
C22_Witness ==
    \E p \in Procs :
        /\ Answered(p, "cancelOrder")
        /\ resp[p].status = 500
        /\ calls[p].writes = 2
        /\ \E k \in 1..(nextLine - 1) :
               SheetsHolding(LineName(k)) = {Waiting, Cancelled}

(***************************************************************************)
(* Requests that cannot be carried out                                     *)
(***************************************************************************)
Mutations == {"submitOrder", "approveOrder", "cancelOrder",
              "approveBranchOrder", "updateWaitingOrder",
              "updatePreviousOrders"}

\* a field the operation of request p needs is left out
LacksField(p) ==
    LET r == req[p]
    IN CASE r.op \in {"approveOrder", "cancelOrder"} ->
                r.username = "" \/ r.orderSerial = ""
         [] r.op = "approveBranchOrder" ->
                r.username = "" \/ r.branchName = ""
         [] r.op = "updateWaitingOrder" ->
                r.username = "" \/ r.orderSerial = "" \/ r.items = <<>>
         [] r.op \in {"submitOrder", "updatePreviousOrders"} ->
                r.username = "" \/ r.branchName = "" \/ r.items = <<>>
         [] OTHER -> FALSE

\* the rows of a sheet, below the header, dated in the month of instant t
RowsOfMonth(sheet, t) ==
    {i \in 2..Len(sheet) : DatedInMonthOf(sheet[i], t)}

\* request p has read its sheet and found no row to act on
FoundNoRow(p) ==
    LET r == req[p]
        was == pre[p].sheets
        t == loc[p].now
    IN /\ calls[p].reads >= 1
       /\ CASE r.op \in {"approveOrder", "cancelOrder"} ->
                  \A i \in RowsOfMonth(was[Waiting], t) :
                      was[Waiting][i][colK] # r.orderSerial
            [] r.op = "approveBranchOrder" ->
                  \A i \in RowsOfMonth(was[Waiting], t) :
                      was[Waiting][i][colB] # r.branchName
            [] r.op = "updateWaitingOrder" ->
                  \A k \in 1..Len(r.items) :
                      \A i \in RowsOfMonth(was[Waiting], t) :
                          ~(/\ was[Waiting][i][colK] = r.orderSerial
                            /\ was[Waiting][i][colD] = r.items[k].productCode)
            [] r.op = "updatePreviousOrders" ->
                  \A k \in 1..Len(r.items) :
                      /\ ~(r.items[k].rowIndex > 0
                              /\ r.items[k].rowIndex < Len(was[Final]))
                      /\ \A i \in RowsOfMonth(was[Final], t) :
                             ~(/\ was[Final][i][colB] = r.branchName
                               /\ was[Final][i][colD]
                                      = r.items[k].productCode)
            [] OTHER -> FALSE

\* C23: a mutation that finds no matching rows (approveOrder, cancelOrder,
\* approveBranchOrder, updateWaitingOrder, updatePreviousOrders) or that
\* lacks a field it needs is answered with status 400, and the three
\* sheets and the serial counter are as they were.
C23_NoMatchOrMissingFieldAnswers400 ==
    \A p \in Procs :
        (pc[p] = "done" /\ req[p].op \in Mutations
            /\ (LacksField(p) \/ FoundNoRow(p))) =>
            /\ resp[p].status = 400
            /\ StoreAsItWas(p)

(***************************************************************************)
(* Appends in flight together                                              *)
(***************************************************************************)
\* the blank rows of `after` that lie above a row with content and were not
\* such rows of `before`
NewGaps(before, after) ==
    {i \in 1..(Len(after) - 1) :
        /\ IsBlankRow(after[i])
        /\ \E j \in (i + 1)..Len(after) : ~IsBlankRow(after[j])
        /\ ~(/\ i <= Len(before) /\ IsBlankRow(before[i])
              /\ \E j \in (i + 1)..Len(before) : ~IsBlankRow(before[j]))}

\* an order line, and a row typed in with no date
DatedLine == <<"M0", "Maadi", "amr", "P1", "N1", "3", "6", "Drinks", "2",
               "", "AA1">>
UndatedLine == [DatedLine EXCEPT ![colA] = ""]

\* sheets of a header and up to MaxLines rows: lines, undated rows and
\* rows blanked by a clear
RaceSheets ==
    {TrimTrailing(<<HeaderRow>> \o body) :
        body \in UNION {[1..n -> {DatedLine, UndatedLine, BlankRow}] :
                            n \in 0..MaxLines}}

\* the rows of one append: 1..MaxItems order lines
RaceValues == {[k \in 1..n |-> DatedLine] : n \in 1..MaxItems}

\* the sheet after two appends that overlap: each scans before the other
\* writes, so both scan the sheet as it is, then a writes, then b
AfterOverlap(sheet, a, b) ==
    LET startRow == lastRow(sheet) + 1
    IN valuesUpdate(valuesUpdate(sheet, startRow, a), startRow, b)

\* C24 as stated: there are a sheet (one of RaceSheets, or one the store
\* holds now) and two overlapping appends to it, no clear involved, that
\* leave a blank row between the rows with content that was not there
\* before.
C24_OverlappingAppendsCanLeaveGap ==
    \E sheet \in RaceSheets \cup {sheets[n] : n \in SheetNames} :
        \E a, b \in RaceValues :
            NewGaps(sheet, AfterOverlap(sheet, a, b)) # {}

\* C24, amended: appends to a sheet, overlapping or not, with no clear
\* involved, never leave a gap: every write starts at most one row below
\* the last row with content, so no step puts a blank row between rows
\* with content, and two appends that scanned the same last row write from
\* the same row, the later over the earlier.
C24_AppendsLeaveNoGap ==
    /\ [][\A n \in SheetNames : NewGaps(sheets[n], sheets'[n]) = {}]_vars
    /\ [](\A n \in SheetNames : \A i \in 2..Len(sheets[n]) :
             ~IsBlankRow(sheets[n][i]))
    /\ [](\A p \in Procs : pc[p] = "appendWrite" =>
             /\ loc[p].startRow <= Len(sheets[loc[p].target]) + 1
             /\ loc[p].startRow > 1)

\* two submissions to the same sheet overlapped, one of two lines and one
\* of one: both have answered success, the sheet has two rows for the
\* three lines, and they follow the rows it had with no blank row between
C24_Witness ==
    \E p, q \in Procs :
        /\ p # q
        /\ Succeeded(p, "submitOrder") /\ Succeeded(q, "submitOrder")
        /\ loc[p].target = Waiting /\ loc[q].target = Waiting
        /\ Len(req[p].items) = 2 /\ Len(req[q].items) = 1
        /\ Len(sheets[Waiting]) = 4
        /\ sheets[Waiting][2] = LegacyRow
        /\ \A i \in 3..4 : ~IsBlankRow(sheets[Waiting][i])

(***************************************************************************)
(* Edit of an order with two lines of one product                          *)
(***************************************************************************)
\* C25: the write of a successful updateWaitingOrder gives the new quantity
\* and subtotal to every row of 'Waiting for Approval' that is dated in the
\* current month and carries the serial of the request and the product
\* code of one of its items: when two rows of the serial carry the same
\* product code, both are written.
C25_EditUpdatesEveryMatchingRow ==
    [][\A p \in Procs :
          (pc[p] = "editWrite" /\ pc'[p] = "done" /\ resp'[p].success) =>
              \A k \in 1..Len(req[p].items) :
                  \A i \in 2..Len(sheets[Waiting]) :
                      EditedBy(p, i, req[p].items[k]) =>
                          sheets'[Waiting][i]
                              = EditedRow(i, req[p].items[k])]_vars

(***************************************************************************)
(* Returns                                                                 *)
(***************************************************************************)
\* the rows of 'Final Orders' dated in the month of the return of request
\* p that carry its branch and the product code of item o
ReturnCandidates(p, o) ==
    {i \in RowsOfMonth(sheets[Final], loc[p].now) :
        /\ sheets[Final][i][colB] = req[p].branchName
        /\ sheets[Final][i][colD] = o.productCode}

\* the sheet row item o of request p is aimed at, 0 if there is none: with
\* a row index in (0, number of rows) the row at that index (the header is
\* at index 0), otherwise the last of the candidates
ReturnTarget(p, o) ==
    IF o.rowIndex > 0 /\ o.rowIndex < Len(sheets[Final])
    THEN o.rowIndex + 1
    ELSE IF ReturnCandidates(p, o) = {} THEN 0
    ELSE CHOOSE i \in ReturnCandidates(p, o) :
             \A j \in ReturnCandidates(p, o) : j <= i

\* row i of 'Final Orders' after the return of item o
ReturnedRow(i, o) ==
    LET old == sheets[Final][i]
        qty == IF o.quantity > 0 THEN o.quantity ELSE 0
    IN [c \in 1..NumCols |->
           IF c = colI THEN NumStr[qty]
           ELSE IF c = colG THEN NumStr[NumOfText[old[colF]] * qty]
           ELSE old[c]]

\* C26: the write of a successful updatePreviousOrders changes, for each
\* item, exactly one row of 'Final Orders' (the last item aimed at a row
\* decides its cells): for an item without a usable rowIndex the last row
\* dated in the current month whose branch is the requested one and whose
\* product code is the item's, and for an item with a numeric rowIndex in
\* (0, number of rows) the row at that index, whatever its product code;
\* no other row changes.
C26_ReturnWritesOneRowPerItem ==
    [][\A p \in Procs :
          (pc[p] = "prevWrite" /\ pc'[p] = "done" /\ resp'[p].success) =>
              /\ Len(sheets'[Final]) = Len(sheets[Final])
              /\ sheets'[Waiting] = sheets[Waiting]
              /\ sheets'[Cancelled] = sheets[Cancelled]
              /\ \E k \in 1..Len(req[p].items) :
                     ReturnTarget(p, req[p].items[k]) # 0
              /\ \A i \in 1..Len(sheets[Final]) :
                     LET aimed == {k \in 1..Len(req[p].items) :
                                      ReturnTarget(p, req[p].items[k]) = i}
                     IN IF aimed = {}
                        THEN sheets'[Final][i] = sheets[Final][i]
                        ELSE sheets'[Final][i] =
                                 ReturnedRow(i, req[p].items[
                                     CHOOSE k \in aimed :
                                         \A j \in aimed : j <= k])]_vars

\* a return of two items has succeeded on two approved lines of one
\* product and branch: the item without a row index set the quantity of
\* the later line to 1, the item with row index 1 and another product code
\* set the quantity of the line in sheet row 2 to 0
C26_Witness ==
    \E p \in Procs :
        /\ Succeeded(p, "updatePreviousOrders")
        /\ req[p].items = <<ReturnJuice, ReturnRow>>
        /\ Len(sheets[Final]) >= 3
        /\ \A i \in 2..3 :
               /\ pre[p].sheets[Final][i][colD] = "P1"
               /\ pre[p].sheets[Final][i][colB] = req[p].branchName
               /\ pre[p].sheets[Final][i][colI] = "2"
               /\ DatedInMonthOf(pre[p].sheets[Final][i], loc[p].now)
        /\ sheets[Final][2][colI] = "0" /\ sheets[Final][2][colG] = "0"
        /\ sheets[Final][3][colI] = "1" /\ sheets[Final][3][colG] = "3"

(***************************************************************************)
(* Quantity and subtotal of the stored lines                               *)
(***************************************************************************)
\* the line was submitted with a subtotal of its own (the items of product
\* P2 are the ones that come with one) and has not been rewritten since
GivenSubtotal(cells) ==
    /\ cells[colD] = Water.productCode
    /\ cells[colG] = NumStr[Water.subtotal]
    /\ cells[colI] = NumStr[Water.quantity]

\* C27: in every state, every order line of the three sheets has a
\* quantity that is a non-negative integer and, unless it was submitted
\* with an explicit subtotal, a subtotal equal to its unit price times its
\* quantity, whether submitOrder, an edit or a return wrote it.
C27_QuantityNonNegativeSubtotalDerived ==
    \A n \in SheetNames : \A i \in 2..Len(sheets[n]) :
        ~IsBlankRow(sheets[n][i]) =>
            /\ sheets[n][i][colI] \in NumText
            /\ sheets[n][i][colF] \in NumText
            /\ \/ GivenSubtotal(sheets[n][i])
               \/ sheets[n][i][colG] =
                      NumStr[NumOfText[sheets[n][i][colF]]
                                 * NumOfText[sheets[n][i][colI]]]

(***************************************************************************)
(* A partition without a budgetSheetId                                     *)
(***************************************************************************)
\* the first of a set of partitions
FirstOf(ts) == CHOOSE t \in ts : \A h \in ts : t <= h

\* the partitions the look-up of request p can match: for a login the ones
\* that hold the username with the password, for every other request the
\* ones that hold the username
Matching(p) ==
    IF req[p].op = "validateLogin"
    THEN PartitionsHolding(req[p].username, loc[p].password)
    ELSE PartitionsNaming(req[p].username)

\* the look-up of request p was made (no field it checks first is left
\* out, no read of the master store failed) and its first match is in a
\* partition whose F2 is blank
MatchedWithoutF2(p) ==
    /\ pc[p] = "done" /\ req[p].op # "none"
    /\ ~LacksField(p) /\ req[p].username # ""
    /\ ~loc[p].readFailed
    /\ Matching(p) # {}
    /\ MasterTabs[FirstOf(Matching(p))].f2 = ""

\* C28: when the first partition that matches the user of a request has a
\* blank F2, the request (a login, or any other endpoint, which looks the
\* user up by name) is answered with status 500 and has made no call to
\* the order store, which is as it was; nothing is looked up in a later
\* partition, even one that holds the user and has an F2: a login has read
\* the partitions up to the matching one and no further.
C28_BlankF2Answers500 ==
    \A p \in Procs :
        MatchedWithoutF2(p) =>
            /\ resp[p].status = 500 /\ ~resp[p].success
            /\ calls[p] = NoCalls
            /\ StoreAsItWas(p)
            /\ loc[p].match = NoUser
            /\ req[p].op = "validateLogin" =>
                   loc[p].tabsRead = TitlesUpTo(FirstOf(Matching(p)))

\* a login has been answered 500 for a username and password held by a
\* partition without F2 and by a later partition with one; it read the
\* partitions up to the first of the two
C28_Witness ==
    \E p \in Procs :
        /\ MatchedWithoutF2(p)
        /\ req[p].op = "validateLogin"
        /\ resp[p].status = 500
        /\ loc[p].tabsRead = <<"ClientA", "ClientB", "ClientC">>
        /\ \E t \in Matching(p) :
               t > FirstOf(Matching(p)) /\ MasterTabs[t].f2 # ""

(***************************************************************************)
(* The orders of the L2 summary                                            *)
(***************************************************************************)
\* the rows of sheet n, in order, that are lines of the current month of
\* request p with a branch and a serial
CurrentLines(p, n) ==
    select(sheets[n], 2,
           {i \in 1..Len(sheets[n]) :
               /\ get(sheets[n][i], colA) \in Stamps
               /\ MonthOfStamp[get(sheets[n][i], colA)]
                      = LocalMonth(loc[p].now)
               /\ get(sheets[n][i], colB) # ""
               /\ get(sheets[n][i], colK) # ""})

\* the (serial, status) pairs among those lines
CurrentPairs(p) ==
    {<<get(sheets[n][i], colK), statusKey(n)>> :
        <<n, i>> \in {<<m, j>> \in SheetNames \X (1..(MaxLines + 5)) :
                         \E k \in 1..Len(CurrentLines(p, m)) :
                             CurrentLines(p, m)[k] = j}}

\* the lines of one pair, in the order of their sheet
LinesOfPair(p, serial, status) ==
    LET n == CHOOSE m \in SheetNames : statusKey(m) = status
        idxs == CurrentLines(p, n)
    IN SelectSeq([k \in 1..Len(idxs) |-> padRow(sheets[n][idxs[k]])],
                 LAMBDA row : row[colK] = serial)

RECURSIVE SumOfSubtotals(_)
SumOfSubtotals(items) ==
    IF items = <<>> THEN 0
    ELSE Head(items).subtotal + SumOfSubtotals(Tail(items))

\* the requesters that the lines name
NamedIn(lines) == {lines[k][colC] : k \in 1..Len(lines)} \ {""}

\* the earliest of the dates of the lines
EarliestOf(lines) ==
    CHOOSE d \in {InstantOfStamp[lines[k][colA]] : k \in 1..Len(lines)} :
        \A k \in 1..Len(lines) : d <= InstantOfStamp[lines[k][colA]]

\* order o is the order of the lines: their items in order, the sum of the
\* items' subtotals, the earliest date and the requester
OrderOfLines(o, lines) ==
    /\ lines # <<>>
    /\ o.items = [k \in 1..Len(lines) |-> summaryItem(lines[k])]
    /\ o.total = SumOfSubtotals(o.items)
    /\ o.createdAt = toCairoString(EarliestOf(lines))
    /\ o.requestedBy = IF NamedIn(lines) = {} THEN ""
                       ELSE IF Cardinality(NamedIn(lines)) = 1
                       THEN CHOOSE u \in NamedIn(lines) : TRUE
                       ELSE MultipleUsers

\* C29: the orders that ordersSummaryForL2 answers with are one order for
\* each (serial, status) pair among the rows of the three sheets that are
\* dated in the current month and have a branch and a serial, and no other
\* order; an order's items are the lines of its pair, its total is the sum
\* of the subtotals of its items, its createdAt is the earliest date of its
\* lines, and its requestedBy is empty if no line names a requester, the
\* requester if the lines that name one agree, and 'multiple users'
\* otherwise.
C29_SummaryGroupsBySerialAndStatus ==
    \A p \in Procs :
        Succeeded(p, "ordersSummaryForL2") =>
            LET orders == summaryOrders(loc[p].rows)
            IN /\ Len(orders) = Cardinality(CurrentPairs(p))
               /\ \A pair \in CurrentPairs(p) :
                      \E k \in 1..Len(orders) :
                          /\ orders[k].serial = pair[1]
                          /\ orders[k].status = pair[2]
               /\ \A k \in 1..Len(orders) :
                      OrderOfLines(orders[k],
                                   LinesOfPair(p, orders[k].serial,
                                               orders[k].status))

\* the summary has answered with an order that no line names a requester
\* for, an order of one requester with a line that names nobody, an order
\* of several requesters, and two orders of one serial in different
\* statuses; one order has two lines of different subtotals and is dated
\* earlier than its first line
C29_Witness ==
    \E p \in Procs :
        /\ Succeeded(p, "ordersSummaryForL2")
        /\ LET orders == summaryOrders(loc[p].rows)
           IN /\ \E k \in 1..Len(orders) : orders[k].requestedBy = ""
              /\ \E k \in 1..Len(orders) :
                     /\ orders[k].requestedBy = "amr"
                     /\ Len(orders[k].items) > 1
              /\ \E k \in 1..Len(orders) :
                     /\ orders[k].requestedBy = MultipleUsers
                     /\ Len(orders[k].items) > 2
                     /\ orders[k].items[1].subtotal
                            # orders[k].items[2].subtotal
                     /\ orders[k].createdAt
                            # toCairoString(decodeDate(
                                  LinesOfPair(p, orders[k].serial,
                                              orders[k].status)[1][colA]))
              /\ \E j, k \in 1..Len(orders) :
                     /\ orders[j].serial = orders[k].serial
                     /\ orders[j].status # orders[k].status

(***************************************************************************)
(* Approval of a branch                                                    *)
(***************************************************************************)
\* numbers of the rows below the header that are dated in the server's
\* month of instant t and carry the branch in column B, top to bottom
RowsOfBranch(sheet, t, branchName) ==
    SelectSeq([i \in 1..Len(sheet) |-> i],
              LAMBDA i : /\ i > 1
                         /\ sheet[i][colA] \in Stamps
                         /\ MonthOfStamp[sheet[i][colA]] = LocalMonth(t)
                         /\ sheet[i][colB] = branchName)

\* C30: when approveBranchOrder succeeds (no other request in flight),
\* every row of Waiting below the header that is dated in the current month
\* and carries the branch in column B, whatever its serial and also when it
\* has none, is now at the end of 'Final Orders', in order and with its 11
\* cells, and is 11 empty cells in Waiting; the other rows of Waiting, those
\* of other branches among them, and 'Cancelled Orders' are as they were.
C30_ApproveBranchMovesEveryRowOfBranch ==
    \A p \in Procs :
        Succeeded(p, "approveBranchOrder") =>
            LET was == pre[p].sheets
                idx == RowsOfBranch(was[Waiting], loc[p].now,
                                    req[p].branchName)
                moved == {idx[k] : k \in 1..Len(idx)}
            IN /\ idx # <<>>
               /\ sheets[Final] = was[Final] \o [k \in 1..Len(idx) |->
                                                    was[Waiting][idx[k]]]
               /\ \A i \in 1..Max(Len(was[Waiting]), Len(sheets[Waiting])) :
                      RowAt(sheets[Waiting], i) =
                          IF i \in moved THEN BlankRow ELSE was[Waiting][i]
               /\ sheets[Cancelled] = was[Cancelled]

\* an approval of a branch moved a row without a serial and rows of two
\* serials, and left a row of another branch in Waiting
C30_Witness ==
    \E p \in Procs :
        /\ Succeeded(p, "approveBranchOrder")
        /\ LET was == pre[p].sheets
               idx == RowsOfBranch(was[Waiting], loc[p].now,
                                   req[p].branchName)
           IN /\ \E k \in 1..Len(idx) : was[Waiting][idx[k]][colK] = ""
              /\ \E j, k \in 1..Len(idx) :
                     /\ was[Waiting][idx[j]][colK] # ""
                     /\ was[Waiting][idx[k]][colK] # ""
                     /\ was[Waiting][idx[j]][colK] # was[Waiting][idx[k]][colK]
              /\ \E i \in 2..Len(sheets[Waiting]) :
                     /\ sheets[Waiting][i][colB] \notin {"", req[p].branchName}
                     /\ sheets[Waiting][i] = was[Waiting][i]

(***************************************************************************)
(* Approvals and cancellations of one serial, in flight together           *)
(***************************************************************************)
SerialMoves == {"approveOrder", "cancelOrder"}

\* the rows of a sheet, below the header, that hold the line of a name
RowsHoldingLine(name, lineName) ==
    {i \in 2..Len(sheets[name]) : sheets[name][i][colE] = lineName}

MovedBefore(p) ==
    \/ last.op = "move" /\ last.orderSerial = req[p].orderSerial
    \/ \E q \in Procs \ {p} :
           /\ pc[q] = "done" /\ req[q].op \in SerialMoves /\ resp[q].success
           /\ req[q].orderSerial = req[p].orderSerial

C32_WaitingRowsBlankOrComplete ==
    \A i \in 2..Len(sheets[Waiting]) :
        \/ IsBlankRow(sheets[Waiting][i])
        \/ /\ get(sheets[Waiting][i], colA) # ""
           /\ get(sheets[Waiting][i], colK) # ""

(***************************************************************************)
(* The counter and the serials in use                                      *)
(***************************************************************************)
\* the numbers of the serials that the lines of the three sheets carry
SerialsInUse ==
    {SerialValue(sheets[n][i][colK]) :
        <<n, i>> \in {<<m, j>> \in SheetNames \X (2..(MaxLines + 5)) :
                         /\ j <= Len(sheets[m])
                         /\ sheets[m][j][colK] \in {SerialOf(k) : k \in NumRange}}}

\* C33: in every reachable state the number after the prefix in the serial
\* counter cell is at least the number of every serial that a line of the
\* three sheets carries, so that the next serial issued is not in use.
C33_CounterAtLeastEverySerial ==
    \A n \in SerialsInUse : n <= SuffixAfterPrefix(counterCell)

(***************************************************************************)
(* The lines of the store, counted                                         *)
(***************************************************************************)
\* the places of a store (the three sheets, as a function of their names)
\* below the header that hold a row with content
LinePlaces(grid) ==
    {pl \in SheetNames \X (2..(MaxLines + 5)) :
        /\ pl[2] <= Len(grid[pl[1]])
        /\ ~IsBlankRow(grid[pl[1]][pl[2]])}

\* how many times the store holds the line
CountIn(grid, line) ==
    Cardinality({pl \in LinePlaces(grid) : grid[pl[1]][pl[2]] = line})

\* the lines of a store
LinesIn(grid) == {grid[pl[1]][pl[2]] : pl \in LinePlaces(grid)}

\* the rows that the submission of request p built
SubmittedLines(p) ==
    [k \in 1..Len(req[p].items) |->
        submitRow(req[p].items[k], loc[p].now, req[p].branchName,
                  req[p].username, resp[p].orderSerial)]

\* how many of those rows are the line
CountSubmitted(p, line) ==
    Cardinality({k \in 1..Len(req[p].items) : SubmittedLines(p)[k] = line})

AllMoves == {"approveOrder", "approveBranchOrder", "cancelOrder"}

\* C34: with requests one at a time and no failing store call, when
\* approveOrder, approveBranchOrder or cancelOrder has answered success the
\* three sheets together hold every line as many times as they did when the
\* request arrived (none lost, none twice), and when submitOrder has
\* answered success they hold the lines they held and the submitted lines,
\* each one more time.
C34_MovesKeepAndSubmitAddsLines ==
    \A p \in Procs :
        LET was == pre[p].sheets
        IN /\ (pc[p] = "done" /\ req[p].op \in AllMoves /\ resp[p].success)
              => \A line \in LinesIn(was) \cup LinesIn(sheets) :
                     CountIn(sheets, line) = CountIn(was, line)
           /\ Succeeded(p, "submitOrder")
              => \A line \in LinesIn(was) \cup LinesIn(sheets)
                              \cup {SubmittedLines(p)[k] :
                                       k \in 1..Len(req[p].items)} :
                     CountIn(sheets, line)
                         = CountIn(was, line) + CountSubmitted(p, line)

\* an approval of a branch has moved two lines to 'Final Orders', which
\* held a line already
C34_Witness ==
    \E p \in Procs :
        /\ Succeeded(p, "approveBranchOrder")
        /\ Len(pre[p].sheets[Final]) > 1
        /\ Len(sheets[Final]) = Len(pre[p].sheets[Final]) + 2
        /\ CountIn(sheets, sheets[Final][Len(sheets[Final])]) = 1

(***************************************************************************)
(* Where an append lands                                                   *)
(***************************************************************************)
\* C35: every write of appendRowsAtoK starts at row 2 or below, so that no
\* appended line is in row 1, which the scans skip as the header; this
\* also when column A of the target sheet is blank all the way down.
C35_AppendLandsBelowHeader ==
    [][\A p \in Procs :
           (pc[p] = "appendWrite" /\ pc'[p] # "appendWrite") =>
               /\ loc[p].startRow >= 2
               /\ \A k \in 1..Len(loc[p].appendValues) :
                      \E i \in 2..Len(sheets'[loc[p].target]) :
                          sheets'[loc[p].target][i] = loc[p].appendValues[k]]_vars

(***************************************************************************)
(* The user at login and after                                             *)
(***************************************************************************)
\* C36: for every login that succeeds, the partition, the level and the
\* budgetSheetId that the endpoints used after login find for the username
\* alone are the ones the login returned for the username and password,
\* also when two client partitions hold the username with different
\* passwords: the user's requests go to the user's own client's store.
C36_SameUserAfterLogin ==
    \A p \in Procs :
        (LoggedIn(p) /\ resp[p].success) =>
            LET after == getUserInfoByUsername(req[p].username)
            IN /\ after.kind = "ok"
               /\ after.tab = loc[p].match.tab
               /\ after.level = loc[p].match.level
               /\ after.budgetSheetId = loc[p].match.budgetSheetId


(***************************************************************************)
(* The month of a line just submitted.                                     *)
(***************************************************************************)

\* C37: a line that submitOrder has written with the stamp of instant t
\* passes the current-month filter evaluated at the same instant t: the
\* month of its date cell is the month the filter takes for t.
C37_SubmittedLineIsInItsMonth ==
    \A p \in Procs :
        Succeeded(p, "submitOrder") =>
            \A k \in 1..Len(req[p].items) :
                inMonth(SubmittedLines(p)[k], loc[p].now)


(***************************************************************************)
(* One response to every request.                                          *)
(***************************************************************************)
Statuses == {200, 400, 403, 500}

\* the step sends the response of request p
Responds(p) ==
    /\ pc[p] \notin {"done"} /\ pc'[p] = "done"
    /\ resp[p] = NoResp
    /\ resp'[p].status \in Statuses

\* the step leaves the response of request p as it was, or is the end of
\* the request
KeepsResponse(p) ==
    \/ resp'[p] = resp[p] /\ (pc'[p] = "done" <=> pc[p] = "done")
    \/ pc[p] = "done" /\ pc'[p] = "idle" /\ resp'[p] = NoResp

====
